---------------------------- MODULE Spec2Model ----------------------------
(***************************************************************************)
(* The battle store of GameQuestRealm2 (client/src/lib/stores/useBattle)   *)
(* as a state machine: the zustand store's fields are the variables, each  *)
(* store method and each setTimeout callback is one action.  The character *)
(* store, the card collection and the view are modelled as far as the      *)
(* battle store reads or writes them.                                      *)
(*                                                                         *)
(* zustand's set(fn) calls fn(state) with the state at the time of the     *)
(* call and then merges fn's result over the state as it is when fn        *)
(* returns, so a nested set() made while fn runs is kept, except for the   *)
(* keys that fn's own result names.  The resolution operators below follow *)
(* that order.                                                             *)
(***************************************************************************)
EXTENDS Integers, Sequences, FiniteSets, Bags, TLC

VARIABLES
    \* useBattle
    active, level,
    playerHealth, playerMaxHealth, enemyHealth, enemyMaxHealth,
    playerCards, enemyCards, activeCard, enemyActiveCard,
    playerEffects, enemyEffects,
    currentTurn, outcome, playerSkipNextTurn, enemySkipNextTurn,
    \* useCharacter
    health, maxHealth, charLevel, experience, nextLevelExperience,
    \* useCards
    cards, deck,
    \* useGame
    view,
    \* pending setTimeout callbacks (a bag)
    timers,
    \* number of battles won with an experience award so far (history variable)
    wins,
    \* inputs and outputs of the combat resolver when it is exercised alone
    probe

battleVars == <<active, level, playerHealth, playerMaxHealth, enemyHealth,
                enemyMaxHealth, playerCards, enemyCards, activeCard,
                enemyActiveCard, playerEffects, enemyEffects, currentTurn,
                outcome, playerSkipNextTurn, enemySkipNextTurn>>
charVars == <<health, maxHealth, charLevel, experience, nextLevelExperience>>
cardVars == <<cards, deck>>
vars == <<battleVars, charVars, cardVars, view, timers, wins, probe>>

(***************************************************************************)
(* Bounds of the model.                                                    *)
(***************************************************************************)
\* pending timers at any time
MaxTimers == 1
\* entries of one ledger
MaxEffects == 2
\* battles won with an experience award in one run
MaxWins == 1

(***************************************************************************)
(* Program constants.                                                      *)
(***************************************************************************)
\* setTimeout delays, in ticks of 500 ms
EnemyDelay == 2
SkipDelay == 3
ReturnDelay == 4
\* getBattleCards(3)
BattleHandSize == 3
\* useCharacter initial state
InitialHealth == 100
InitialNextLevelExperience == 100

NULL == "null"
NoCard == 0

Max(a, b) == IF a >= b THEN a ELSE b
Min(a, b) == IF a <= b THEN a ELSE b

(***************************************************************************)
(* Cards.  A card is held in the state by its id; Catalog gives the        *)
(* combat-relevant fields of the cards the model draws from.  Every entry  *)
(* is a card generateCard can return: power is the rarity's base value     *)
(* plus 3*(level-1) plus -2..3, effectPower is floor(power*0.3) + 0..4,    *)
(* effectDuration is 1 for common and uncommon, 2 for rare and epic, 3 for *)
(* legendary, and the effect belongs to the pool of one card type.         *)
(***************************************************************************)
Card(p, e, ep, ed) == [power |-> p, effect |-> e, effectPower |-> ep, effectDuration |-> ed]

Catalog ==
    <<  Card(5,  "none", 0, 0),          \* 1  common
        Card(12, "none", 0, 0),          \* 2  uncommon
        Card(20, "boost", 6, 2),         \* 3  epic
        Card(20, "none", 0, 0),          \* 4  epic
        Card(15, "burn", 5, 2),          \* 5  rare spell
        Card(12, "stun", 3, 1),          \* 6  uncommon spell
        Card(10, "shield", 4, 1),        \* 7  uncommon
        Card(20, "double_attack", 7, 2), \* 8  epic creature
        Card(15, "leech", 6, 2),         \* 9  rare creature
        Card(10, "heal", 5, 1),          \* 10 uncommon spell
        Card(15, "weaken", 4, 2),        \* 11 rare spell
        Card(30, "reflect", 10, 3),      \* 12 legendary artifact
        Card(50, "none", 0, 0)           \* 13 legendary of level 7
    >>

CardIds == DOMAIN Catalog


(***************************************************************************)
(* Status effect ledger helpers.                                           *)
(***************************************************************************)
StatusEffect(card) ==
    [ effect     |-> Catalog[card].effect,
      power      |-> Catalog[card].effectPower,
      duration   |-> IF Catalog[card].effectDuration = 0 THEN 1
                     ELSE Catalog[card].effectDuration,
      sourceCard |-> card ]

\* list.filter(effect => effect.effect === kind)
RECURSIVE EffectsOfKind(_, _)
EffectsOfKind(list, kind) ==
    IF list = <<>> THEN <<>>
    ELSE IF Head(list).effect = kind
         THEN <<Head(list)>> \o EffectsOfKind(Tail(list), kind)
         ELSE EffectsOfKind(Tail(list), kind)

\* for (const effect of boostEffects) actualPower += effect.power
RECURSIVE AddBoosts(_, _)
AddBoosts(actualPower, boostEffects) ==
    IF boostEffects = <<>> THEN actualPower
    ELSE AddBoosts(actualPower + Head(boostEffects).power, Tail(boostEffects))

\* variant: the weaken entries subtracted without the floor of 1
RECURSIVE SubtractWeakensUnfloored(_, _)
SubtractWeakensUnfloored(actualPower, weakenEffects) ==
    IF weakenEffects = <<>> THEN actualPower
    ELSE SubtractWeakensUnfloored(actualPower - Head(weakenEffects).power,
                                  Tail(weakenEffects))

\* for (const effect of weakenEffects) actualPower = Math.max(1, actualPower - effect.power)
RECURSIVE SubtractWeakens(_, _)
SubtractWeakens(actualPower, weakenEffects) ==
    IF weakenEffects = <<>> THEN actualPower
    ELSE SubtractWeakens(Max(1, actualPower - Head(weakenEffects).power),
                         Tail(weakenEffects))

\* shieldEffects.reduce((total, effect) => total + effect.power, 0)
RECURSIVE TotalPower(_)
TotalPower(list) ==
    IF list = <<>> THEN 0 ELSE Head(list).power + TotalPower(Tail(list))

(***************************************************************************)
(* Math.floor(actualPower * (reflectPower / 100)) in IEEE double           *)
(* arithmetic.  For actualPower and reflectPower in 0..100 the result is   *)
(* the integer quotient except at the pairs of RoundedDown, where the      *)
(* double product falls just below the exact integer.                      *)
(***************************************************************************)
RoundedDown == { <<50, 58>>, <<90, 70>>, <<100, 29>>, <<100, 57>>, <<100, 58>> }

ReflectAmount(actualPower, reflectPower) ==
    IF <<actualPower, reflectPower>> \in RoundedDown
    THEN ((actualPower * reflectPower) \div 100) - 1
    ELSE (actualPower * reflectPower) \div 100

(***************************************************************************)
(* Combat resolver: the player's attack (playCard).                        *)
(***************************************************************************)
\* actualPower of the player's card: boosts of playerEffects, weakens of enemyEffects
PlayerActualPower(power, pEffects, eEffects) ==
    SubtractWeakens(AddBoosts(power, EffectsOfKind(pEffects, "boost")),
                    EffectsOfKind(eEffects, "weaken"))

\* variant: only the first shield entry blocks
PlayerDamageFirstShield(actualPower, eEffects) ==
    LET shieldEffects == EffectsOfKind(eEffects, "shield")
    IN IF Len(shieldEffects) > 0
       THEN Max(0, actualPower - shieldEffects[1].power)
       ELSE actualPower

\* damage of one hit of the player's card, through the enemy's shields
PlayerDamage(actualPower, eEffects) ==
    LET shieldEffects == EffectsOfKind(eEffects, "shield")
        blockedDamage == TotalPower(shieldEffects)
    IN IF Len(shieldEffects) > 0
       THEN Max(0, actualPower - blockedDamage)
       ELSE actualPower

\* variant: every card hits twice
PlayerHitTwice(eHealth, actualPower, eEffects) ==
    Max(0, eHealth - (2 * PlayerDamage(actualPower, eEffects)))

\* enemy health after that hit
PlayerHit(eHealth, actualPower, eEffects) ==
    Max(0, eHealth - PlayerDamage(actualPower, eEffects))

\* variant: reflected damage leaves the player at 1 health at least
PlayerReflectedSpared(pHealth, actualPower, eEffects) ==
    LET reflectEffects == EffectsOfKind(eEffects, "reflect")
    IN IF Len(reflectEffects) > 0
       THEN Max(1, pHealth - ReflectAmount(actualPower, reflectEffects[1].power))
       ELSE pHealth

\* player health after the enemy's first reflect entry returns damage
PlayerReflected(pHealth, actualPower, eEffects) ==
    LET reflectEffects == EffectsOfKind(eEffects, "reflect")
    IN IF Len(reflectEffects) > 0
       THEN Max(0, pHealth - ReflectAmount(actualPower, reflectEffects[1].power))
       ELSE pHealth

\* variant: the leech heal is card.effectPower whatever the actualPower
PlayerLeechFullPower(card, pHealth, pMaxHealth, actualPower) ==
    IF Catalog[card].effect = "leech"
    THEN Min(pMaxHealth, pHealth + Catalog[card].effectPower)
    ELSE pHealth

\* variant: the leech heal without the cap at playerMaxHealth
PlayerLeechUncapped(card, pHealth, pMaxHealth, actualPower) ==
    IF Catalog[card].effect = "leech"
    THEN pHealth + Min(actualPower, Catalog[card].effectPower)
    ELSE pHealth

\* player health after the leech heal of the player's card
PlayerLeech(card, pHealth, pMaxHealth, actualPower) ==
    IF Catalog[card].effect = "leech"
    THEN Min(pMaxHealth, pHealth + Min(actualPower, Catalog[card].effectPower))
    ELSE pHealth

\* variant: a double_attack card hits once
PlayerSecondHitMissing(eHealth, actualPower) == eHealth

\* second hit of a double_attack card of the player
PlayerSecondHit(eHealth, actualPower) == Max(0, eHealth - actualPower)

(***************************************************************************)
(* The fields of the store a card resolution reads and writes, as a record *)
(* that the resolution operators take and return.                          *)
(***************************************************************************)
Store ==
    [ playerHealth       |-> playerHealth,
      playerMaxHealth    |-> playerMaxHealth,
      enemyHealth        |-> enemyHealth,
      playerEffects      |-> playerEffects,
      enemyEffects       |-> enemyEffects,
      outcome            |-> outcome,
      playerSkipNextTurn |-> playerSkipNextTurn,
      enemySkipNextTurn  |-> enemySkipNextTurn ]

\* variant: the result is not recorded
endBattleIgnored(s, result) == s

\* endBattle(result), lines 471-483: set({ outcome: result })
endBattle(s, result) == [s EXCEPT !.outcome = result]

\* applyCardEffect(card, 'enemy'): the set(state => ...) of the enemy branch
ApplyToEnemy(s, card) ==
    LET effectPower == Catalog[card].effectPower
        newEnemyHealth ==
            IF Catalog[card].effect = "burn"
            THEN Max(0, s.enemyHealth - effectPower)
            ELSE s.enemyHealth
        stunned == IF Catalog[card].effect = "stun"
                   THEN [s EXCEPT !.enemySkipNextTurn = TRUE]
                   ELSE s
    IN IF newEnemyHealth <= 0
       THEN [stunned EXCEPT !.outcome = "win", !.enemyHealth = 0]
       ELSE [stunned EXCEPT !.enemyHealth = newEnemyHealth,
                            !.enemyEffects = Append(@, StatusEffect(card))]

\* applyCardEffect(card, 'player'): the set(state => ...) of the player branch
ApplyToPlayer(s, card) ==
    LET effectPower == Catalog[card].effectPower
        newPlayerHealth ==
            IF Catalog[card].effect = "heal"
            THEN Min(s.playerMaxHealth, s.playerHealth + effectPower)
            ELSE s.playerHealth
    IN [s EXCEPT !.playerHealth = newPlayerHealth,
                 !.playerEffects = Append(@, StatusEffect(card))]

applyCardEffect(s, card, target) ==
    IF Catalog[card].effect = "none" THEN s
    ELSE IF target = "enemy" THEN ApplyToEnemy(s, card)
    ELSE ApplyToPlayer(s, card)

(***************************************************************************)
(* zustand's set() merges its argument into the state and calls every      *)
(* subscriber at once, also when it is called from inside the updater of   *)
(* another set().  EffectPublished is the sequence of states that the      *)
(* set() calls of applyCardEffect(card, target) hand to the subscribers,   *)
(* called on the store s: the stun flag (line 516), endBattle('win') of a  *)
(* lethal burn (line 527), and the merge of the branch's own result.       *)
(***************************************************************************)
EffectPublished(s, card, target) ==
    IF Catalog[card].effect = "none" THEN <<>>
    ELSE IF target = "player" THEN << ApplyToPlayer(s, card) >>
    ELSE LET stunned == IF Catalog[card].effect = "stun"
                        THEN << [s EXCEPT !.enemySkipNextTurn = TRUE] >>
                        ELSE <<>>
             burnt == IF /\ Catalog[card].effect = "burn"
                         /\ s.enemyHealth - Catalog[card].effectPower <= 0
                      THEN << endBattle(s, "win") >>
                      ELSE <<>>
         IN stunned \o burnt \o << ApplyToEnemy(s, card) >>

(***************************************************************************)
(* playCard's set(state => ...), lines 194-293.  The result is the store   *)
(* after the merge, with the experience awarded (exp) and whether the      *)
(* reward-card roll is made (reward).                                      *)
(***************************************************************************)
Resolved(s, e, r) == [store |-> s, exp |-> e, reward |-> r]

ExpGain(lvl) == 50 + (lvl * 25)

ResolvePlayerCard(s, card, lvl) ==
    LET actualPower == PlayerActualPower(Catalog[card].power, s.playerEffects, s.enemyEffects)
        hitEnemyHealth == PlayerHit(s.enemyHealth, actualPower, s.enemyEffects)
        reflects == Len(EffectsOfKind(s.enemyEffects, "reflect")) > 0
        reflectedHealth == PlayerReflected(s.playerHealth, actualPower, s.enemyEffects)
        newPlayerHealth == PlayerLeech(card, reflectedHealth, s.playerMaxHealth, actualPower)
        applied == applyCardEffect(s, card, "enemy")
        secondEnemyHealth == PlayerSecondHit(hitEnemyHealth, actualPower)
    IN IF reflects /\ reflectedHealth <= 0
       THEN Resolved([s EXCEPT !.outcome = "lose", !.playerHealth = 0], 0, FALSE)
       ELSE IF hitEnemyHealth <= 0
       THEN Resolved([applied EXCEPT !.outcome = "win", !.enemyHealth = 0,
                                     !.playerHealth = newPlayerHealth],
                     ExpGain(lvl), TRUE)
       ELSE IF Catalog[card].effect = "double_attack" /\ secondEnemyHealth <= 0
       THEN Resolved([applied EXCEPT !.outcome = "win", !.enemyHealth = 0,
                                     !.playerHealth = newPlayerHealth],
                     ExpGain(lvl), FALSE)
       ELSE Resolved([applied EXCEPT
                        !.enemyHealth = IF Catalog[card].effect = "double_attack"
                                        THEN secondEnemyHealth ELSE hitEnemyHealth,
                        !.playerHealth = newPlayerHealth],
                     0, FALSE)

(***************************************************************************)
(* The states that the set() calls inside playCard's updater hand to the   *)
(* subscribers before the updater's own result is merged: endBattle of a   *)
(* lethal reflect (line 229), applyCardEffect (line 242), endBattle of a   *)
(* lethal first or second hit (lines 247, 278).                            *)
(***************************************************************************)
PlayCardPublished(s, card) ==
    LET actualPower == PlayerActualPower(Catalog[card].power, s.playerEffects, s.enemyEffects)
        hitEnemyHealth == PlayerHit(s.enemyHealth, actualPower, s.enemyEffects)
        reflects == Len(EffectsOfKind(s.enemyEffects, "reflect")) > 0
        reflectedHealth == PlayerReflected(s.playerHealth, actualPower, s.enemyEffects)
        applied == applyCardEffect(s, card, "enemy")
        secondEnemyHealth == PlayerSecondHit(hitEnemyHealth, actualPower)
    IN IF reflects /\ reflectedHealth <= 0
       THEN << endBattle(s, "lose") >>
       ELSE EffectPublished(s, card, "enemy")
            \o IF \/ hitEnemyHealth <= 0
                  \/ Catalog[card].effect = "double_attack" /\ secondEnemyHealth <= 0
               THEN << endBattle(applied, "win") >>
               ELSE <<>>

(***************************************************************************)
(* Combat resolver: the enemy's attack (the enemy-action timer).           *)
(***************************************************************************)
\* actualPower of the enemy's card: boosts of enemyEffects, weakens of playerEffects
EnemyActualPower(power, pEffects, eEffects) ==
    SubtractWeakens(AddBoosts(power, EffectsOfKind(eEffects, "boost")),
                    EffectsOfKind(pEffects, "weaken"))

\* damage of one hit of the enemy's card, through the player's shields
EnemyDamage(actualPower, pEffects) ==
    LET shieldEffects == EffectsOfKind(pEffects, "shield")
        blockedDamage == TotalPower(shieldEffects)
    IN IF Len(shieldEffects) > 0
       THEN Max(0, actualPower - blockedDamage)
       ELSE actualPower

\* player health after that hit
EnemyHit(pHealth, actualPower, pEffects) ==
    Max(0, pHealth - EnemyDamage(actualPower, pEffects))

\* enemy health after the player's first reflect entry returns damage
EnemyReflected(eHealth, actualPower, pEffects) ==
    LET reflectEffects == EffectsOfKind(pEffects, "reflect")
    IN IF Len(reflectEffects) > 0
       THEN Max(0, eHealth - ReflectAmount(actualPower, reflectEffects[1].power))
       ELSE eHealth

\* second hit of a double_attack card of the enemy
EnemySecondHit(pHealth, actualPower) == Max(0, pHealth - actualPower)

\* the enemy action's set(state => ...), lines 384-453
ResolveEnemyCard(s, card) ==
    LET actualPower == EnemyActualPower(Catalog[card].power, s.playerEffects, s.enemyEffects)
        hitPlayerHealth == EnemyHit(s.playerHealth, actualPower, s.playerEffects)
        reflects == Len(EffectsOfKind(s.playerEffects, "reflect")) > 0
        newEnemyHealth == EnemyReflected(s.enemyHealth, actualPower, s.playerEffects)
        applied == applyCardEffect(s, card, "player")
        secondPlayerHealth == EnemySecondHit(hitPlayerHealth, actualPower)
    IN IF reflects /\ newEnemyHealth <= 0
       THEN [s EXCEPT !.outcome = "win", !.enemyHealth = 0]
       ELSE IF hitPlayerHealth <= 0
       THEN [applied EXCEPT !.outcome = "lose", !.playerHealth = 0]
       ELSE IF Catalog[card].effect = "double_attack" /\ secondPlayerHealth <= 0
       THEN [applied EXCEPT !.outcome = "lose", !.playerHealth = 0]
       ELSE [applied EXCEPT
                !.playerHealth = IF Catalog[card].effect = "double_attack"
                                 THEN secondPlayerHealth ELSE hitPlayerHealth,
                !.enemyHealth = newEnemyHealth]

(***************************************************************************)
(* The states that the set() calls inside the enemy action's updater hand  *)
(* to the subscribers before the updater's own result is merged: endBattle *)
(* of a lethal reflect (line 421), applyCardEffect (line 427), endBattle   *)
(* of a lethal first or second hit (lines 432, 444).                       *)
(***************************************************************************)
EnemyActionPublished(s, card) ==
    LET actualPower == EnemyActualPower(Catalog[card].power, s.playerEffects, s.enemyEffects)
        hitPlayerHealth == EnemyHit(s.playerHealth, actualPower, s.playerEffects)
        reflects == Len(EffectsOfKind(s.playerEffects, "reflect")) > 0
        newEnemyHealth == EnemyReflected(s.enemyHealth, actualPower, s.playerEffects)
        applied == applyCardEffect(s, card, "player")
        secondPlayerHealth == EnemySecondHit(hitPlayerHealth, actualPower)
    IN IF reflects /\ newEnemyHealth <= 0
       THEN << endBattle(s, "win") >>
       ELSE EffectPublished(s, card, "player")
            \o IF \/ hitPlayerHealth <= 0
                  \/ Catalog[card].effect = "double_attack" /\ secondPlayerHealth <= 0
               THEN << endBattle(applied, "lose") >>
               ELSE <<>>

(***************************************************************************)
(* Enemy AI policy, lines 327-361.  The result is the set of indices the   *)
(* policy can select: one index in the low and high bands, any index of    *)
(* the hand in the middle band (Math.random).                              *)
(***************************************************************************)
\* variant: the reduce with >=, the last of the cards of maximum power
RECURSIVE MostDamagingLast(_, _, _)
MostDamagingLast(hand, bestIndex, currentIndex) ==
    IF currentIndex > Len(hand) THEN bestIndex
    ELSE MostDamagingLast(hand,
                          IF Catalog[hand[currentIndex]].power >= Catalog[hand[bestIndex]].power
                          THEN currentIndex ELSE bestIndex,
                          currentIndex + 1)

\* enemyCards.reduce((best, card, i, cards) => card.power > cards[best].power ? i : best, 0)
RECURSIVE MostDamaging(_, _, _)
MostDamaging(hand, bestIndex, currentIndex) ==
    IF currentIndex > Len(hand) THEN bestIndex
    ELSE MostDamaging(hand,
                      IF Catalog[hand[currentIndex]].power > Catalog[hand[bestIndex]].power
                      THEN currentIndex ELSE bestIndex,
                      currentIndex + 1)

\* variant: the findIndex never finds a card
FindEffectCardNever(hand, currentIndex) == 0

\* enemyCards.findIndex(card => card.effect && card.effect !== 'none'), 0 when there is none
RECURSIVE FindEffectCard(_, _)
FindEffectCard(hand, currentIndex) ==
    IF currentIndex > Len(hand) THEN 0
    ELSE IF Catalog[hand[currentIndex]].effect # "none" THEN currentIndex
    ELSE FindEffectCard(hand, currentIndex + 1)

SelectEnemyCard(hand, pHealth, pMaxHealth) ==
    IF 10 * pHealth < 3 * pMaxHealth
    THEN { MostDamaging(hand, 1, 1) }
    ELSE IF 10 * pHealth > 7 * pMaxHealth
    THEN IF FindEffectCard(hand, 1) >= 1
         THEN { FindEffectCard(hand, 1) }
         ELSE { MostDamaging(hand, 1, 1) }
    ELSE 1..Len(hand)

(***************************************************************************)
(* updateStatusEffects, lines 573-631.                                     *)
(***************************************************************************)
\* health after the burn entries of a ledger tick, one by one
RECURSIVE BurnTicks(_, _)
BurnTicks(h, list) ==
    IF list = <<>> THEN h
    ELSE BurnTicks(IF Head(list).effect = "burn" THEN Max(0, h - Head(list).power) ELSE h,
                   Tail(list))

\* .map(duration - 1).filter(duration > 0)
RECURSIVE Decay(_)
Decay(list) ==
    IF list = <<>> THEN <<>>
    ELSE IF Head(list).duration - 1 > 0
         THEN <<[Head(list) EXCEPT !.duration = @ - 1]>> \o Decay(Tail(list))
         ELSE Decay(Tail(list))

updateStatusEffects(s, turn) ==
    LET newPlayerHealth == IF turn = "player" THEN BurnTicks(s.playerHealth, s.playerEffects)
                           ELSE s.playerHealth
        newEnemyHealth == IF turn = "enemy" THEN BurnTicks(s.enemyHealth, s.enemyEffects)
                          ELSE s.enemyHealth
        updatedPlayerEffects == IF turn = "enemy" THEN Decay(s.playerEffects)
                                ELSE s.playerEffects
        updatedEnemyEffects == IF turn = "player" THEN Decay(s.enemyEffects)
                               ELSE s.enemyEffects
    IN IF newPlayerHealth <= 0
       THEN [s EXCEPT !.outcome = "lose", !.playerHealth = 0]
       ELSE IF newEnemyHealth <= 0
       THEN [s EXCEPT !.outcome = "win", !.enemyHealth = 0]
       ELSE [s EXCEPT !.playerHealth = newPlayerHealth,
                      !.enemyHealth = newEnemyHealth,
                      !.playerEffects = updatedPlayerEffects,
                      !.enemyEffects = updatedEnemyEffects]

(***************************************************************************)
(* Collaborators: the character store and the card collection.             *)
(***************************************************************************)
Character ==
    [ health |-> health, maxHealth |-> maxHealth, level |-> charLevel,
      experience |-> experience, nextLevelExperience |-> nextLevelExperience ]

\* useCharacter.gainExperience
gainExperience(c, amount) ==
    LET newExperience == c.experience + amount
    IN IF newExperience >= c.nextLevelExperience
       THEN [ level |-> c.level + 1,
              experience |-> newExperience - c.nextLevelExperience,
              nextLevelExperience |-> (c.nextLevelExperience * 3) \div 2,
              maxHealth |-> c.maxHealth + 10,
              health |-> c.maxHealth + 10 ]
       ELSE [c EXCEPT !.experience = newExperience]

SetCharacter(c) ==
    /\ health' = c.health
    /\ maxHealth' = c.maxHealth
    /\ charLevel' = c.level
    /\ experience' = c.experience
    /\ nextLevelExperience' = c.nextLevelExperience

\* variant: the whole collection is taken into the battle
getBattleCardsAll(count) ==
    { IF Len(deck) > 0 THEN deck ELSE cards }

\* useCards.getBattleCards(count): the hands it can return
getBattleCards(count) ==
    LET sourceCards == IF Len(deck) > 0 THEN deck ELSE cards
    IN IF Len(sourceCards) <= count
       THEN { sourceCards }
       ELSE { [i \in 1..count |-> sourceCards[f[i]]] :
                f \in { g \in [1..count -> 1..Len(sourceCards)] :
                          \A i, j \in 1..count : i # j => g[i] # g[j] } }

(***************************************************************************)
(* Timers.  due is the number of 500 ms ticks left; a timer fires when due *)
(* is 0 and time does not pass while a timer is due.  The enemy-action     *)
(* callback closes over the enemyCards that endTurn read (hand).  stale    *)
(* records that startBattle or startNewBattle ran after the endTurn that   *)
(* led to the timer (a history field: the program keeps no such mark).     *)
(***************************************************************************)
Timer(k, d, h, st) == [kind |-> k, due |-> d, hand |-> h, stale |-> st]

\* the bag of the timers f[t], t in bag
MapBag(f, bag) ==
    LET image == { f[t] : t \in BagToSet(bag) }
        Count(u) == LET from == { t \in BagToSet(bag) : f[t] = u }
                        RECURSIVE Sum(_)
                        Sum(S) == IF S = {} THEN 0
                                  ELSE LET x == CHOOSE y \in S : TRUE
                                       IN bag[x] + Sum(S \ {x})
                    IN Sum(from)
    IN [u \in image |-> Count(u)]

Stale(t) == [t EXCEPT !.stale = TRUE]
MarkStale(bag) == MapBag([t \in BagToSet(bag) |-> Stale(t)], bag)

\* variant: setTimeout without effect
ScheduleDropped(bag, t) == bag

\* setTimeout
Schedule(bag, t) == bag (+) SetToBag({t})
Cancel(bag, t) == bag (-) SetToBag({t})

SetStore(s) ==
    /\ playerHealth' = s.playerHealth
    /\ playerMaxHealth' = s.playerMaxHealth
    /\ enemyHealth' = s.enemyHealth
    /\ playerEffects' = s.playerEffects
    /\ enemyEffects' = s.enemyEffects
    /\ outcome' = s.outcome
    /\ playerSkipNextTurn' = s.playerSkipNextTurn
    /\ enemySkipNextTurn' = s.enemySkipNextTurn

(***************************************************************************)
(* startBattle(level), lines 89-135, with the enemy hand that the          *)
(* generator returns.                                                      *)
(***************************************************************************)
EnemyCardCount(lvl) == Max(0, Min(3, lvl + 1))

startBattle(lvl, generated) ==
    /\ wins < MaxWins
    /\ Len(generated) = EnemyCardCount(lvl)
    /\ active' = TRUE
    /\ level' = lvl
    /\ playerHealth' = health
    /\ playerMaxHealth' = maxHealth
    /\ enemyHealth' = 30 + (lvl * 20)
    /\ enemyMaxHealth' = 30 + (lvl * 20)
    /\ enemyCards' = generated
    /\ activeCard' = NoCard
    /\ enemyActiveCard' = NoCard
    /\ playerEffects' = <<>>
    /\ enemyEffects' = <<>>
    /\ currentTurn' = "player"
    /\ outcome' = NULL
    /\ playerSkipNextTurn' = FALSE
    /\ enemySkipNextTurn' = FALSE
    /\ view' = "battle"
    /\ timers' = MarkStale(timers)
    /\ playerCards' \in getBattleCards(BattleHandSize)
    /\ UNCHANGED <<charVars, cardVars, wins, probe>>

\* variant: startNewBattle also empties the ledgers
startNewBattleClearsLedgers ==
    /\ active' = FALSE
    /\ activeCard' = NoCard
    /\ enemyActiveCard' = NoCard
    /\ currentTurn' = "player"
    /\ outcome' = NULL
    /\ playerEffects' = <<>>
    /\ enemyEffects' = <<>>
    /\ timers' = MarkStale(timers)
    /\ UNCHANGED <<level, playerHealth, playerMaxHealth, enemyHealth, enemyMaxHealth,
                   playerCards, enemyCards, playerSkipNextTurn, enemySkipNextTurn,
                   charVars, cardVars, view, wins, probe>>

\* startNewBattle, lines 138-146
startNewBattle ==
    /\ active' = FALSE
    /\ activeCard' = NoCard
    /\ enemyActiveCard' = NoCard
    /\ currentTurn' = "player"
    /\ outcome' = NULL
    /\ timers' = MarkStale(timers)
    /\ UNCHANGED <<level, playerHealth, playerMaxHealth, enemyHealth, enemyMaxHealth,
                   playerCards, enemyCards, playerEffects, enemyEffects,
                   playerSkipNextTurn, enemySkipNextTurn,
                   charVars, cardVars, view, wins, probe>>

(***************************************************************************)
(* endTurn, lines 297-468, from the point where outcome has been found     *)
(* null.  skip is the value of playerSkipNextTurn to leave behind (playCard *)
(* clears the flag before it calls endTurn).                               *)
(***************************************************************************)
\* variant: endTurn without the check of enemySkipNextTurn
EndTurnBodyEnemyActs(skip) ==
    LET s == updateStatusEffects([Store EXCEPT !.playerSkipNextTurn = skip], currentTurn)
    IN IF currentTurn = "player"
       THEN /\ BagCardinality(timers) < MaxTimers
            /\ currentTurn' = "enemy"
            /\ activeCard' = NoCard
            /\ SetStore(s)
            /\ timers' = Schedule(timers, Timer("enemy", EnemyDelay, enemyCards, FALSE))
            /\ UNCHANGED <<active, level, enemyMaxHealth, playerCards, enemyCards,
                           enemyActiveCard, charVars, cardVars, view, wins, probe>>
       ELSE /\ SetStore(s)
            /\ currentTurn' = "player"
            /\ enemyActiveCard' = NoCard
            /\ UNCHANGED <<active, level, enemyMaxHealth, playerCards, enemyCards,
                           activeCard, charVars, cardVars, view, timers, wins, probe>>

EndTurnBody(skip) ==
    LET s == updateStatusEffects([Store EXCEPT !.playerSkipNextTurn = skip], currentTurn)
    IN IF currentTurn = "player"
       THEN /\ BagCardinality(timers) < MaxTimers
            /\ currentTurn' = "enemy"
            /\ activeCard' = NoCard
            /\ IF enemySkipNextTurn
               THEN /\ SetStore([s EXCEPT !.enemySkipNextTurn = FALSE])
                    /\ timers' = Schedule(timers, Timer("skip", SkipDelay, <<>>, FALSE))
               ELSE /\ SetStore(s)
                    /\ timers' = Schedule(timers, Timer("enemy", EnemyDelay, enemyCards, FALSE))
            /\ UNCHANGED <<active, level, enemyMaxHealth, playerCards, enemyCards,
                           enemyActiveCard, charVars, cardVars, view, wins, probe>>
       ELSE /\ SetStore(s)
            /\ currentTurn' = "player"
            /\ enemyActiveCard' = NoCard
            /\ UNCHANGED <<active, level, enemyMaxHealth, playerCards, enemyCards,
                           activeCard, charVars, cardVars, view, timers, wins, probe>>

endTurn ==
    IF outcome # NULL
    THEN UNCHANGED vars
    ELSE EndTurnBody(playerSkipNextTurn)

\* variant: the guard of playCard without the outcome check
playCardRejectedByTurnOnly == currentTurn # "player"

\* if (outcome || currentTurn !== 'player') return, lines 152-155
playCardRejected == outcome # NULL \/ currentTurn # "player"

(***************************************************************************)
(* playCard(cardIndex), lines 149-294.  cardIndex counts from 0 as in the  *)
(* source.  rewardRoll is Math.random() < 0.7 and rewardCard the card that *)
(* generateCard('reward', level) returns, one of rewardPool.               *)
(***************************************************************************)
playCard(cardIndex, rewardPool) ==
    IF playCardRejected
    THEN UNCHANGED vars
    ELSE IF playerSkipNextTurn
    THEN EndTurnBody(FALSE)
    ELSE IF cardIndex < 0 \/ cardIndex >= Len(playerCards)
    THEN UNCHANGED vars
    ELSE LET card == playerCards[cardIndex + 1]
             r == ResolvePlayerCard(Store, card, level)
             won == IF r.exp > 0 THEN gainExperience(Character, r.exp) ELSE Character
         IN /\ Len(r.store.enemyEffects) <= MaxEffects
            /\ r.exp > 0 => wins < MaxWins
            /\ wins' = IF r.exp > 0 THEN wins + 1 ELSE wins
            /\ activeCard' = card
            /\ SetStore(r.store)
            /\ IF r.reward
               THEN \E rewardRoll \in BOOLEAN :
                      IF rewardRoll
                      THEN \E rewardCard \in rewardPool :
                             /\ cards' = Append(cards, rewardCard)
                             /\ SetCharacter(gainExperience(won, 10))
                      ELSE /\ cards' = cards
                           /\ SetCharacter(won)
               ELSE /\ cards' = cards
                    /\ SetCharacter(won)
            /\ UNCHANGED <<active, level, enemyMaxHealth, playerCards, enemyCards,
                           enemyActiveCard, currentTurn, deck, view, timers,
                           probe>>

(***************************************************************************)
(* The enemy-action callback, lines 326-463, of the due timer t.           *)
(***************************************************************************)
enemyAction(t, selectedCardIndex) ==
    /\ t \in BagToSet(timers)
    /\ t.kind = "enemy"
    /\ t.due = 0
    /\ IF Len(t.hand) > 0
       THEN /\ selectedCardIndex \in SelectEnemyCard(t.hand, playerHealth, playerMaxHealth)
            /\ LET enemyCard == t.hand[selectedCardIndex]
                   s == ResolveEnemyCard(Store, enemyCard)
               IN /\ Len(s.playerEffects) <= MaxEffects
                  /\ enemyActiveCard' = enemyCard
                  /\ SetStore(s)
            /\ timers' = Schedule(Cancel(timers, t),
                                  Timer("return", ReturnDelay, <<>>, t.stale))
       ELSE /\ selectedCardIndex = 1
            /\ SetStore(endBattle(Store, "win"))
            /\ timers' = Cancel(timers, t)
            /\ UNCHANGED enemyActiveCard
    /\ UNCHANGED <<active, level, enemyMaxHealth, playerCards, enemyCards, activeCard,
                   currentTurn, charVars, cardVars, view, wins, probe>>

\* the return-to-player callbacks, lines 318-320 and 456-458, of the due timer t
returnToPlayer(t) ==
    /\ t \in BagToSet(timers)
    /\ t.kind \in {"skip", "return"}
    /\ t.due = 0
    /\ currentTurn' = "player"
    /\ enemyActiveCard' = NoCard
    /\ timers' = Cancel(timers, t)
    /\ UNCHANGED <<active, level, playerHealth, playerMaxHealth, enemyHealth,
                   enemyMaxHealth, playerCards, enemyCards, activeCard, playerEffects,
                   enemyEffects, outcome, playerSkipNextTurn, enemySkipNextTurn,
                   charVars, cardVars, view, wins, probe>>

\* 500 ms pass: no timer is due
Elapse(t) == [t EXCEPT !.due = @ - 1]

tick ==
    /\ timers # EmptyBag
    /\ \A t \in BagToSet(timers) : t.due > 0
    /\ timers' = MapBag([t \in BagToSet(timers) |-> Elapse(t)], timers)
    /\ UNCHANGED <<battleVars, charVars, cardVars, view, wins, probe>>

(***************************************************************************)
(* The battle against a level-1 enemy, as the world view starts it         *)
(* (startBattle() with the default level).  The stores are as constructed, *)
(* with one pack opened (addCardFromPack: 25 experience) and the starter   *)
(* card removed (removeCard): the collection holds one card of power 12    *)
(* without effect.  The enemy's hand is one of EnemyHands, a reward card   *)
(* one of RewardPool.                                                      *)
(***************************************************************************)
\* startBattle is only ever called without a level, useCharacter.tsx line 148
DefaultLevel == 1
Levels == {DefaultLevel}
EnemyHands == { <<3, 4>> }
RewardPool == {2}
\* the indices playCard is called with: the card of the hand, one below, one above
CardIndices == -1..1

InitStore ==
    /\ active = FALSE
    /\ level = 1
    /\ playerHealth = 100
    /\ playerMaxHealth = 100
    /\ enemyHealth = 50
    /\ enemyMaxHealth = 50
    /\ playerCards = <<>>
    /\ enemyCards = <<>>
    /\ activeCard = NoCard
    /\ enemyActiveCard = NoCard
    /\ playerEffects = <<>>
    /\ enemyEffects = <<>>
    /\ currentTurn = "player"
    /\ outcome = NULL
    /\ playerSkipNextTurn = FALSE
    /\ enemySkipNextTurn = FALSE
    /\ timers = EmptyBag
    /\ wins = 0
    /\ view = "world"

InitCharacter(packs) ==
    /\ health = InitialHealth
    /\ maxHealth = InitialHealth
    /\ charLevel = 1
    /\ experience = 25 * packs
    /\ nextLevelExperience = InitialNextLevelExperience

NoProbe == [op |-> "none"]

Init ==
    /\ InitStore
    /\ InitCharacter(1)
    /\ cards = <<2>>
    /\ deck = <<>>
    /\ probe = NoProbe

StartBattle == \E lvl \in Levels, generated \in EnemyHands : startBattle(lvl, generated)
StartNewBattle == startNewBattle
PlayCard == \E cardIndex \in CardIndices : playCard(cardIndex, RewardPool)
EndTurn == endTurn
EnemyAction == \E t \in BagToSet(timers), selectedCardIndex \in 1..BattleHandSize :
                    enemyAction(t, selectedCardIndex)
ReturnToPlayer == \E t \in BagToSet(timers) : returnToPlayer(t)
Tick == tick

Next ==
    \/ StartBattle
    \/ StartNewBattle
    \/ PlayCard
    \/ EndTurn
    \/ EnemyAction
    \/ ReturnToPlayer
    \/ Tick

Spec == Init /\ [][Next]_vars

(***************************************************************************)
(* handleInteract of the world view, CardBattle.tsx lines 299-322: the     *)
(* interact key next to an enemy starts a battle of the default level, and *)
(* only while the view is 'world'.                                         *)
(***************************************************************************)
handleInteract(generated) ==
    /\ view = "world"
    /\ startBattle(DefaultLevel, generated)

(***************************************************************************)
(* One battle with effect cards on both sides, entered from the world      *)
(* view: the collection holds EffectsCollection (one pack per card), the   *)
(* enemy's hand is one of EffectsEnemyHands.                               *)
(***************************************************************************)
EffectsCollection == <<9>>
EffectsEnemyHands == { <<5, 12>> }

InitEffects ==
    /\ InitStore
    /\ InitCharacter(Len(EffectsCollection))
    /\ cards = EffectsCollection
    /\ deck = <<>>
    /\ probe = NoProbe

HandleInteract == \E generated \in EffectsEnemyHands : handleInteract(generated)

NextEffects ==
    \/ HandleInteract
    \/ PlayCard
    \/ EndTurn
    \/ EnemyAction
    \/ ReturnToPlayer
    \/ Tick

SpecEffects == InitEffects /\ [][NextEffects]_vars

(***************************************************************************)
(* One battle with stun cards on both sides, entered from the world view:  *)
(* the collection holds the stun card of StunCollection (one pack opened,  *)
(* the starter card removed), the enemy's hand is one of StunEnemyHands.   *)
(***************************************************************************)
StunCollection == <<6>>
StunEnemyHands == { <<6, 2>>, <<2, 6>>, <<2, 4>> }

InitStun ==
    /\ InitStore
    /\ InitCharacter(Len(StunCollection))
    /\ cards = StunCollection
    /\ deck = <<>>
    /\ probe = NoProbe

HandleInteractStun == \E generated \in StunEnemyHands : handleInteract(generated)

NextStun ==
    \/ HandleInteractStun
    \/ PlayCard
    \/ EndTurn
    \/ EnemyAction
    \/ ReturnToPlayer
    \/ Tick

SpecStun == InitStun /\ [][NextStun]_vars

(***************************************************************************)
(* One battle with burn cards on both sides, entered from the world view:  *)
(* the collection holds the burn card of BurnCollection (one pack opened,  *)
(* the starter card removed), the enemy's hand is one of BurnEnemyHands.   *)
(***************************************************************************)
BurnCollection == <<5>>
BurnEnemyHands == { <<5, 2>> }

InitBurn ==
    /\ InitStore
    /\ InitCharacter(Len(BurnCollection))
    /\ cards = BurnCollection
    /\ deck = <<>>
    /\ probe = NoProbe

HandleInteractBurn == \E generated \in BurnEnemyHands : handleInteract(generated)

NextBurn ==
    \/ HandleInteractBurn
    \/ PlayCard
    \/ EndTurn
    \/ EnemyAction
    \/ ReturnToPlayer
    \/ Tick

SpecBurn == InitBurn /\ [][NextBurn]_vars

(***************************************************************************)
(* Battles started over and over: the collection holds the starter card    *)
(* and three pack cards of power 12, more than a hand takes; startBattle is *)
(* called with a level of StartLevels from whatever state the last battle  *)
(* is in.  A level of -1 gives the enemy Math.min(3, 0) = 0 cards and 10   *)
(* health.  The player ends turns and plays no card.                       *)
(***************************************************************************)
StartCollection == <<1, 2, 2, 2>>
StartLevels == {-1, 1, 3}
StartEnemyHands == { <<>>, <<3, 4>>, <<4, 4, 4>> }

InitStart ==
    /\ InitStore
    /\ InitCharacter(Len(StartCollection) - 1)
    /\ cards = StartCollection
    /\ deck = <<>>
    /\ probe = NoProbe

StartBattleAtLevel ==
    \E lvl \in StartLevels, generated \in StartEnemyHands : startBattle(lvl, generated)

NextStart ==
    \/ StartBattleAtLevel
    \/ EndTurn
    \/ EnemyAction
    \/ ReturnToPlayer
    \/ Tick

SpecStart == InitStart /\ [][NextStart]_vars

(***************************************************************************)
(* One battle in which no card has an effect, so that no ledger fills up:  *)
(* the collection of Init, an enemy hand of LiveEnemyHands.  The browser   *)
(* runs a timer's callback once its delay has passed: time passes while    *)
(* no timer is due, and a due timer fires.                                 *)
(***************************************************************************)
LiveEnemyHands == { <<2, 4>> }

HandleInteractLive == \E generated \in LiveEnemyHands : handleInteract(generated)

NextLive ==
    \/ HandleInteractLive
    \/ PlayCard
    \/ EndTurn
    \/ EnemyAction
    \/ ReturnToPlayer
    \/ Tick

SpecLive ==
    /\ Init
    /\ [][NextLive]_vars
    /\ WF_vars(Tick)
    /\ WF_vars(EnemyAction)
    /\ WF_vars(ReturnToPlayer)

(***************************************************************************)
(* The attack arithmetic of both resolvers on its own.  An input is a card *)
(* power, the two ledgers and the defender's health; the ledgers are the   *)
(* lists of at most MaxEffects entries of ProbeEntries.  playerAttack       *)
(* computes what playCard computes for it (lines 174-214), enemyAttack what *)
(* the enemy action computes (lines 364-403); the result is kept in probe. *)
(***************************************************************************)
ProbePowers == {5, 10, 12}
ProbeHealths == {2, 50}
ProbeEntries ==
    { [effect |-> "boost", power |-> 3, duration |-> 1, sourceCard |-> NoCard],
      [effect |-> "weaken", power |-> 4, duration |-> 1, sourceCard |-> NoCard],
      [effect |-> "weaken", power |-> 20, duration |-> 1, sourceCard |-> NoCard],
      [effect |-> "shield", power |-> 3, duration |-> 1, sourceCard |-> NoCard],
      [effect |-> "shield", power |-> 4, duration |-> 1, sourceCard |-> NoCard] }

ProbeLedgers == UNION { [1..n -> ProbeEntries] : n \in 0..MaxEffects }

ProbeInput(power, pEffects, eEffects, h) ==
    [ op |-> "input", power |-> power, playerEffects |-> pEffects,
      enemyEffects |-> eEffects, health |-> h, actualPower |-> 0, damage |-> 0 ]

InitResolver ==
    /\ InitStore
    /\ InitCharacter(0)
    /\ cards = <<1>>
    /\ deck = <<>>
    /\ \E power \in ProbePowers, pEffects \in ProbeLedgers, eEffects \in ProbeLedgers,
          h \in ProbeHealths :
          probe = ProbeInput(power, pEffects, eEffects, h)

playerAttack ==
    /\ probe.op = "input"
    /\ LET actualPower == PlayerActualPower(probe.power, probe.playerEffects,
                                            probe.enemyEffects)
       IN probe' = [probe EXCEPT
                      !.op = "playCard",
                      !.actualPower = actualPower,
                      !.damage = PlayerDamage(actualPower, probe.enemyEffects),
                      !.health = PlayerHit(probe.health, actualPower, probe.enemyEffects)]
    /\ UNCHANGED <<battleVars, charVars, cardVars, view, timers, wins>>

enemyAttack ==
    /\ probe.op = "input"
    /\ LET actualPower == EnemyActualPower(probe.power, probe.playerEffects,
                                           probe.enemyEffects)
       IN probe' = [probe EXCEPT
                      !.op = "enemyAction",
                      !.actualPower = actualPower,
                      !.damage = EnemyDamage(actualPower, probe.playerEffects),
                      !.health = EnemyHit(probe.health, actualPower, probe.playerEffects)]
    /\ UNCHANGED <<battleVars, charVars, cardVars, view, timers, wins>>

NextResolver ==
    \/ playerAttack
    \/ enemyAttack

SpecResolver == InitResolver /\ [][NextResolver]_vars

(***************************************************************************)
(* The two set(state => ...) updaters on their own: playCard's (lines      *)
(* 194-293) and the enemy action's (lines 384-453).  An input is the card  *)
(* and the store the updater receives: the healths of DuelHealths, the     *)
(* ledgers of at most MaxEffects entries of DuelEntries, no outcome, no    *)
(* skip flag.  The store the updater leaves is kept in probe.after, the     *)
(* states its nested set() calls hand to the subscribers on the way in     *)
(* probe.published.                                                        *)
(***************************************************************************)
DuelCards == {5, 6, 8, 9, 13}
\* <<playerHealth, enemyHealth>>
DuelHealths == { <<100, 50>>, <<60, 30>>, <<2, 15>>, <<30, 2>> }
DuelEntries ==
    { [effect |-> "reflect", power |-> 58, duration |-> 2, sourceCard |-> NoCard],
      [effect |-> "reflect", power |-> 10, duration |-> 3, sourceCard |-> NoCard],
      [effect |-> "shield", power |-> 12, duration |-> 2, sourceCard |-> NoCard],
      [effect |-> "boost", power |-> 6, duration |-> 2, sourceCard |-> NoCard],
      [effect |-> "weaken", power |-> 20, duration |-> 2, sourceCard |-> NoCard] }

DuelLedgers == UNION { [1..n -> DuelEntries] : n \in 0..MaxEffects }

DuelStore(h, pEffects, eEffects) ==
    [ playerHealth       |-> h[1],
      playerMaxHealth    |-> InitialHealth,
      enemyHealth        |-> h[2],
      playerEffects      |-> pEffects,
      enemyEffects       |-> eEffects,
      outcome            |-> NULL,
      playerSkipNextTurn |-> FALSE,
      enemySkipNextTurn  |-> FALSE ]

DuelInput(card, s) ==
    [ op |-> "input", card |-> card, before |-> s, after |-> s,
      published |-> <<>>, exp |-> 0, reward |-> FALSE ]

InitCards ==
    /\ InitStore
    /\ InitCharacter(0)
    /\ cards = <<1>>
    /\ deck = <<>>
    /\ \E card \in DuelCards, h \in DuelHealths,
          pEffects \in DuelLedgers, eEffects \in DuelLedgers :
          probe = DuelInput(card, DuelStore(h, pEffects, eEffects))

\* the player's card goes through playCard's updater
playCardUpdate ==
    /\ probe.op = "input"
    /\ LET r == ResolvePlayerCard(probe.before, probe.card, DefaultLevel)
       IN probe' = [probe EXCEPT !.op = "playCard", !.after = r.store,
                                 !.published = PlayCardPublished(probe.before, probe.card),
                                 !.exp = r.exp, !.reward = r.reward]
    /\ UNCHANGED <<battleVars, charVars, cardVars, view, timers, wins>>

\* the enemy's card goes through the enemy action's updater
enemyActionUpdate ==
    /\ probe.op = "input"
    /\ probe' = [probe EXCEPT !.op = "enemyAction",
                              !.after = ResolveEnemyCard(probe.before, probe.card),
                              !.published = EnemyActionPublished(probe.before, probe.card)]
    /\ UNCHANGED <<battleVars, charVars, cardVars, view, timers, wins>>

NextCards ==
    \/ playCardUpdate
    \/ enemyActionUpdate

SpecCards == InitCards /\ [][NextCards]_vars

(***************************************************************************)
(* The card generator, CardData.ts.  A value of Math.random() is one of    *)
(* Rolls, in thousandths; none of them lies on a threshold the generator   *)
(* compares it with.  A chance is kept in millionths.  The card is the     *)
(* record of the fields the battle reads, with type and rarity; id, name,  *)
(* description, colour, creature type, cost and unlockLevel (their draws   *)
(* change no other field) are left out.  generateCard                      *)
(* is called with the source and level of GenInputs: the starter card and  *)
(* a pack card at the default level, an enemy card at the battle's level,  *)
(* a reward card at the character's level.                                 *)
(***************************************************************************)
Rolls == {0, 40, 80, 250, 400, 550, 700, 900}
\* the luck draws of a pack, lines 169-171
LuckRolls == {0, 900}

\* Math.random() < chance
Below(roll, chance) == roll * 1000 < chance

\* Math.floor(Math.random() * n)
RandomIndex(roll, n) == (roll * n) \div 1000

\* determineRarity(source, level), lines 140-182, with the draws luck (three
\* of them, used by a pack) and roll
determineRarity(source, lvl, luck, roll) ==
    LET legendaryChance ==
            10000 + CASE source = "enemy" -> lvl * 10000
                      [] source = "reward" -> 50000
                      [] source = "pack" -> luck[1] * 50
                      [] OTHER -> 0
        epicChance ==
            50000 + CASE source = "enemy" -> lvl * 20000
                      [] source = "reward" -> 100000
                      [] source = "pack" -> luck[2] * 100
                      [] OTHER -> 0
        rareChance ==
            150000 + CASE source = "enemy" -> lvl * 30000
                       [] source = "reward" -> 150000
                       [] source = "pack" -> luck[3] * 150
                       [] OTHER -> 0
        uncommonChance == 350000
    IN IF source = "starter" THEN "common"
       ELSE IF Below(roll, legendaryChance) THEN "legendary"
       ELSE IF Below(roll, legendaryChance + epicChance) THEN "epic"
       ELSE IF Below(roll, legendaryChance + epicChance + rareChance) THEN "rare"
       ELSE IF Below(roll, legendaryChance + epicChance + rareChance + uncommonChance)
            THEN "uncommon"
       ELSE "common"

baseValues ==
    [ common |-> 5, uncommon |-> 10, rare |-> 15, epic |-> 20, legendary |-> 30 ]

\* calculateCardPower(rarity, level), lines 122-137
calculateCardPower(rarity, lvl, roll) ==
    baseValues[rarity] + ((lvl - 1) * 3) + (RandomIndex(roll, 6) - 2)

\* the card type of typeRoll, lines 216-224
CardTypeOf(typeRoll) ==
    IF Below(typeRoll, 600000) THEN "creature"
    ELSE IF Below(typeRoll, 850000) THEN "spell"
    ELSE "artifact"

\* in millionths
effectChance ==
    [ common |-> 100000, uncommon |-> 300000, rare |-> 600000, epic |-> 800000,
      legendary |-> 1000000 ]

creatureEffects == << "leech", "double_attack", "shield", "boost" >>
spellEffects == << "stun", "burn", "freeze", "weaken", "heal" >>
artifactEffects == << "shield", "reflect", "boost" >>

\* the effect fields of a generated card, lines 227-266
GeneratedEffect(type, rarity, power, chanceRoll, effectRoll, powerRoll) ==
    IF Below(chanceRoll, effectChance[rarity])
    THEN LET effects == CASE type = "creature" -> creatureEffects
                          [] type = "spell" -> spellEffects
                          [] OTHER -> artifactEffects
             effect == effects[RandomIndex(effectRoll, Len(effects)) + 1]
         IN [ effect |-> effect,
              effectPower |-> ((power * 3) \div 10) + RandomIndex(powerRoll, 5),
              effectDuration |-> IF rarity = "legendary" THEN 3
                                 ELSE IF rarity \in {"epic", "rare"} THEN 2 ELSE 1 ]
    ELSE [ effect |-> "none", effectPower |-> 0, effectDuration |-> 0 ]

\* the rarities determineRarity(source, level) can return
RaritiesOf(source, lvl) ==
    { determineRarity(source, lvl, luck, roll) :
        luck \in [1..3 -> LuckRolls], roll \in Rolls }

\* generateCard(source, level), lines 208-292: the cards it can return
generateCard(source, lvl) ==
    { LET power == calculateCardPower(rarity, lvl, d[1])
          type == CardTypeOf(d[2])
          e == GeneratedEffect(type, rarity, power, d[3], d[4], d[5])
      IN [ type |-> type, rarity |-> rarity, power |-> power, effect |-> e.effect,
           effectPower |-> e.effectPower, effectDuration |-> e.effectDuration ] :
      rarity \in RaritiesOf(source, lvl), d \in [1..5 -> Rolls] }

GenInputs ==
    { <<"starter", DefaultLevel>>, <<"pack", DefaultLevel>>,
      <<"enemy", DefaultLevel>>, <<"reward", 1>>, <<"reward", 2>> }

InitGenerate ==
    /\ InitStore
    /\ InitCharacter(0)
    /\ cards = <<1>>
    /\ deck = <<>>
    /\ \E in \in GenInputs :
          probe = [ op |-> "input", source |-> in[1], level |-> in[2] ]

\* the call generateCard(source, level)
generate ==
    /\ probe.op = "input"
    /\ \E card \in generateCard(probe.source, probe.level) :
          probe' = [ op |-> "generateCard", source |-> probe.source,
                     level |-> probe.level, card |-> card ]
    /\ UNCHANGED <<battleVars, charVars, cardVars, view, timers, wins>>

NextGenerate == generate

SpecGenerate == InitGenerate /\ [][NextGenerate]_vars

(***************************************************************************)
(*                              Properties                                 *)
(***************************************************************************)

\* C1: in every reachable state both health values lie between 0 and their
\* maximum: 0 <= playerHealth <= playerMaxHealth and
\* 0 <= enemyHealth <= enemyMaxHealth.
HealthWithinBounds ==
    /\ 0 <= playerHealth /\ playerHealth <= playerMaxHealth
    /\ 0 <= enemyHealth /\ enemyHealth <= enemyMaxHealth

\* a leech card has resolved on a player at full health (its heal is cut off
\* at playerMaxHealth) and has hurt the enemy
HealthWithinBoundsWitness ==
    /\ activeCard # NoCard
    /\ Catalog[activeCard].effect = "leech"
    /\ playerHealth = playerMaxHealth
    /\ enemyHealth < enemyMaxHealth

\* C2: outcome is terminal within a battle: once it is 'win' or 'lose', no
\* step that leaves it set changes it to the other value or changes
\* playerHealth, enemyHealth, playerEffects or enemyEffects, a deferred
\* enemy action firing after the end included.
OutcomeTerminal ==
    [][ (outcome # NULL /\ outcome' # NULL)
        => /\ outcome' = outcome
           /\ UNCHANGED <<playerHealth, enemyHealth, playerEffects, enemyEffects>> ]_vars

\* C3: invalid commands change nothing: a playCard(index) step taken while
\* outcome is set, while it is not the player's turn, or with index < 0 or
\* index >= hand size leaves every variable unchanged, and so does an endTurn
\* step taken while outcome is set.
InvalidCommandsAreNoOps ==
    [][ /\ \A cardIndex \in CardIndices :
             ( /\ \/ outcome # NULL
                  \/ currentTurn # "player"
                  \/ cardIndex < 0
                  \/ cardIndex >= Len(playerCards)
               /\ playCard(cardIndex, RewardPool) )
             => UNCHANGED vars
        /\ (outcome # NULL /\ endTurn) => UNCHANGED vars ]_vars

\* the battle is over on the player's turn with a card in hand, and playCard
\* of that card and endTurn are taken there as steps that change nothing
InvalidCommandsAreNoOpsWitness ==
    /\ outcome # NULL
    /\ currentTurn = "player"
    /\ Len(playerCards) > 0
    /\ ENABLED (playCard(0, RewardPool) /\ UNCHANGED vars)
    /\ ENABLED (endTurn /\ UNCHANGED vars)

\* C4: one card per player turn: once a card has been resolved on the
\* player's turn (activeCard is set and the turn has not passed to the
\* enemy), a further playCard step is rejected and changes nothing.
SecondPlayRejected ==
    [][ \A cardIndex \in CardIndices :
          (activeCard # NoCard /\ currentTurn = "player" /\ playCard(cardIndex, RewardPool))
          => UNCHANGED vars ]_vars

\* C5: a timer left over from before startNewBattle or a superseding
\* startBattle changes nothing of the battle when it fires: no health, no
\* ledger, no active card, not currentTurn and not outcome.
StaleTimersInert ==
    [][ \A t \in BagToSet(timers) :
          ( /\ t.stale
            /\ \/ returnToPlayer(t)
               \/ \E selectedCardIndex \in 1..BattleHandSize :
                     enemyAction(t, selectedCardIndex) )
          => UNCHANGED <<playerHealth, enemyHealth, playerEffects, enemyEffects,
                         activeCard, enemyActiveCard, currentTurn, outcome>> ]_vars

\* C6: the turn alternates: every step that hands the turn over (an endTurn
\* taken while outcome is null, the return-to-player timer after an enemy
\* action, the timer of a stun-consumed enemy turn) gives currentTurn to the
\* other side.
TurnAlternates ==
    [][ (ReturnToPlayer \/ (outcome = NULL /\ EndTurn)) => currentTurn' # currentTurn ]_vars

\* C7 as stated: in a fresh level-1 battle (enemyMaxHealth 50) playing the
\* power-12 card without effect gives enemyHealth 38, outcome null and
\* currentTurn 'enemy'.
FirstPlayPassesTurn ==
    [][ \A cardIndex \in CardIndices :
          ( /\ active /\ level = 1 /\ enemyMaxHealth = 50 /\ enemyHealth = 50
            /\ playerEffects = <<>> /\ enemyEffects = <<>>
            /\ ~playCardRejected
            /\ cardIndex >= 0 /\ cardIndex < Len(playerCards)
            /\ Catalog[playerCards[cardIndex + 1]].power = 12
            /\ Catalog[playerCards[cardIndex + 1]].effect = "none"
            /\ playCard(cardIndex, RewardPool) )
          => (enemyHealth' = 38 /\ outcome' = NULL /\ currentTurn' = "enemy") ]_vars

\* C7 amended: that play gives enemyHealth 38 and outcome null, leaves
\* currentTurn at 'player' and shows the card as activeCard; the endTurn
\* that follows the play gives currentTurn 'enemy'.
FirstPlayKeepsTurn ==
    [][ /\ \A cardIndex \in CardIndices :
             ( /\ active /\ level = 1 /\ enemyMaxHealth = 50 /\ enemyHealth = 50
               /\ playerEffects = <<>> /\ enemyEffects = <<>>
               /\ ~playCardRejected
               /\ cardIndex >= 0 /\ cardIndex < Len(playerCards)
               /\ Catalog[playerCards[cardIndex + 1]].power = 12
               /\ Catalog[playerCards[cardIndex + 1]].effect = "none"
               /\ playCard(cardIndex, RewardPool) )
             => /\ enemyHealth' = 38
                /\ outcome' = NULL
                /\ currentTurn' = "player"
                /\ activeCard' = playerCards[cardIndex + 1]
        /\ ( /\ active /\ enemyHealth = 38 /\ outcome = NULL
             /\ currentTurn = "player" /\ activeCard # NoCard
             /\ EndTurn /\ ~UNCHANGED vars )
           => (currentTurn' = "enemy" /\ enemyHealth' = 38 /\ outcome' = NULL) ]_vars

\* the power-12 card has been played once in a fresh level-1 battle and the
\* turn has been ended after it
FirstPlayKeepsTurnWitness ==
    /\ active /\ level = 1 /\ enemyMaxHealth = 50
    /\ enemyHealth = 38
    /\ outcome = NULL
    /\ currentTurn = "enemy"
    /\ activeCard = NoCard
    /\ playerHealth = playerMaxHealth
    /\ BagCardinality(timers) = 1

\* C8: each play of the power-12 card without effect, the first of its
\* player turn, takes 12 from enemyHealth (38, 26, 14, 2 and then 0 from 50);
\* outcome stays null while enemyHealth stays above 0 and is 'win' when it
\* reaches 0.
TwelvePerPlay ==
    [][ \A cardIndex \in CardIndices :
          ( /\ active /\ activeCard = NoCard
            /\ ~playCardRejected
            /\ cardIndex >= 0 /\ cardIndex < Len(playerCards)
            /\ Catalog[playerCards[cardIndex + 1]].power = 12
            /\ Catalog[playerCards[cardIndex + 1]].effect = "none"
            /\ playCard(cardIndex, RewardPool) )
          => /\ enemyHealth' = Max(0, enemyHealth - 12)
             /\ outcome' = IF enemyHealth' = 0 THEN "win" ELSE NULL ]_vars

\* C9: the effective power of an attack is the card's power plus the boosts
\* of the attacker's ledger, less the weakens of the defender's ledger with
\* a floor of 1 when the defender has weaken entries; it is never below 1,
\* and the weaken entries of the attacker's own ledger do not enter.
EffectivePower ==
    /\ probe.op = "playCard" =>
         LET boosted == probe.power + TotalPower(EffectsOfKind(probe.playerEffects, "boost"))
             weakens == EffectsOfKind(probe.enemyEffects, "weaken")
         IN /\ probe.actualPower = IF Len(weakens) > 0
                                   THEN Max(1, boosted - TotalPower(weakens))
                                   ELSE boosted
            /\ probe.actualPower >= 1
    /\ probe.op = "enemyAction" =>
         LET boosted == probe.power + TotalPower(EffectsOfKind(probe.enemyEffects, "boost"))
             weakens == EffectsOfKind(probe.playerEffects, "weaken")
         IN /\ probe.actualPower = IF Len(weakens) > 0
                                   THEN Max(1, boosted - TotalPower(weakens))
                                   ELSE boosted
            /\ probe.actualPower >= 1

\* power 5 against weakens of 20 and 4 on the enemy's ledger, with a weaken
\* on the player's own ledger: the player's effective power is 1
EffectivePowerWitness ==
    /\ probe.op = "playCard"
    /\ probe.power = 5
    /\ Len(EffectsOfKind(probe.enemyEffects, "weaken")) = 2
    /\ TotalPower(EffectsOfKind(probe.enemyEffects, "weaken")) = 24
    /\ Len(EffectsOfKind(probe.playerEffects, "weaken")) > 0
    /\ probe.actualPower = 1

\* C10: the damage of a hit is max(0, effective power - sum of the
\* defender's shield powers) when the defender has shield entries, and the
\* effective power when it has none; it is never negative.
ShieldAdditivity ==
    /\ probe.op = "playCard" =>
         LET shields == EffectsOfKind(probe.enemyEffects, "shield")
         IN /\ probe.damage = IF Len(shields) > 0
                              THEN Max(0, probe.actualPower - TotalPower(shields))
                              ELSE probe.actualPower
            /\ probe.damage >= 0
    /\ probe.op = "enemyAction" =>
         LET shields == EffectsOfKind(probe.playerEffects, "shield")
         IN /\ probe.damage = IF Len(shields) > 0
                              THEN Max(0, probe.actualPower - TotalPower(shields))
                              ELSE probe.actualPower
            /\ probe.damage >= 0

\* shields of 3 and 4 on the enemy's ledger against an effective power of
\* 10: the damage is 3
ShieldAdditivityWitness ==
    /\ probe.op = "playCard"
    /\ probe.actualPower = 10
    /\ Len(EffectsOfKind(probe.enemyEffects, "shield")) = 2
    /\ TotalPower(EffectsOfKind(probe.enemyEffects, "shield")) = 7
    /\ probe.damage = 3

\* the reflect entries the attack of probe.card meets, and its actualPower
DuelReflects ==
    IF probe.op = "playCard"
    THEN EffectsOfKind(probe.before.enemyEffects, "reflect")
    ELSE EffectsOfKind(probe.before.playerEffects, "reflect")

DuelActualPower ==
    IF probe.op = "playCard"
    THEN PlayerActualPower(Catalog[probe.card].power, probe.before.playerEffects,
                           probe.before.enemyEffects)
    ELSE EnemyActualPower(Catalog[probe.card].power, probe.before.playerEffects,
                          probe.before.enemyEffects)

\* the attacker's health before and after the updater, where the updater
\* writes it: the player's unless the card leeches, the enemy's unless the
\* player falls
DuelAttackerWritten ==
    \/ probe.op = "playCard" /\ Catalog[probe.card].effect # "leech"
    \/ probe.op = "enemyAction" /\ probe.after.outcome # "lose"

DuelAttackerBefore ==
    IF probe.op = "playCard" THEN probe.before.playerHealth ELSE probe.before.enemyHealth

DuelAttackerAfter ==
    IF probe.op = "playCard" THEN probe.after.playerHealth ELSE probe.after.enemyHealth

\* C11: reflect uses only the first reflect entry of the defender's ledger:
\* the attacker loses floor(effectivePower * p / 100) health, p the power of
\* that first entry and effectivePower the power before shields; further
\* reflect entries add nothing, and the attacker's health is floored at 0.
ReflectFirstEntryExact ==
    (DuelAttackerWritten /\ Len(DuelReflects) > 0)
        => DuelAttackerAfter =
             Max(0, DuelAttackerBefore - ((DuelActualPower * DuelReflects[1].power) \div 100))

\* what holds instead: the amount is the floor of the double-precision
\* product actualPower * (p / 100), which ReflectAmount computes
ReflectFirstEntry ==
    (DuelAttackerWritten /\ Len(DuelReflects) > 0)
        => DuelAttackerAfter =
             Max(0, DuelAttackerBefore - ReflectAmount(DuelActualPower, DuelReflects[1].power))

\* an attack met two reflect entries of different power and the attacker
\* lost what the first one returns
ReflectFirstEntryWitness ==
    /\ DuelAttackerWritten
    /\ Len(DuelReflects) = 2
    /\ DuelReflects[1].power # DuelReflects[2].power
    /\ DuelAttackerAfter < DuelAttackerBefore
    /\ DuelAttackerAfter > 0

\* the reflected damage takes all the health the attacker has
DuelReflectLethal ==
    /\ probe.op \in {"playCard", "enemyAction"}
    /\ Len(DuelReflects) > 0
    /\ ReflectAmount(DuelActualPower, DuelReflects[1].power) >= DuelAttackerBefore

\* C12: if reflected damage brings the attacker's health to 0, the battle
\* ends at once in the defender's favour ('lose' when the player attacks,
\* 'win' when the enemy attacks) and nothing else of the card is performed:
\* no leech heal, no second hit, no status effect, also when the attack
\* would have brought the defender to 0.
LethalReflectEndsBattle ==
    DuelReflectLethal =>
        IF probe.op = "playCard"
        THEN probe.after = [probe.before EXCEPT !.outcome = "lose", !.playerHealth = 0]
        ELSE probe.after = [probe.before EXCEPT !.outcome = "win", !.enemyHealth = 0]

\* the player's double_attack, leech or stun card met a lethal reflect while
\* its hit would have felled the enemy: the player lost, the enemy's health,
\* ledger and skip flag are as before
LethalReflectEndsBattleWitness ==
    /\ probe.op = "playCard"
    /\ DuelReflectLethal
    /\ Catalog[probe.card].effect \in {"double_attack", "leech", "stun"}
    /\ PlayerDamage(DuelActualPower, probe.before.enemyEffects) >= probe.before.enemyHealth
    /\ probe.after.outcome = "lose"
    /\ probe.after.playerHealth = 0
    /\ probe.after.enemyHealth = probe.before.enemyHealth
    /\ probe.after.enemyEffects = probe.before.enemyEffects

\* a double_attack card went through an updater and no reflect ended the battle
DuelDoubleAttack ==
    /\ probe.op \in {"playCard", "enemyAction"}
    /\ Catalog[probe.card].effect = "double_attack"
    /\ ~DuelReflectLethal

DuelDefenderBefore ==
    IF probe.op = "playCard" THEN probe.before.enemyHealth ELSE probe.before.playerHealth

DuelDefenderAfter ==
    IF probe.op = "playCard" THEN probe.after.enemyHealth ELSE probe.after.playerHealth

\* the defender's health after the first hit
DuelFirstHit ==
    IF probe.op = "playCard"
    THEN PlayerHit(probe.before.enemyHealth, DuelActualPower, probe.before.enemyEffects)
    ELSE EnemyHit(probe.before.playerHealth, DuelActualPower, probe.before.playerEffects)

DuelAttackerWins == IF probe.op = "playCard" THEN "win" ELSE "lose"

\* C13: double attack resolves two hits: the first is applied and checked
\* for lethality, then a second hit with the same effectivePower is applied
\* to the reduced health and checked again; health is floored at 0 after
\* each hit (power 20 against health 30 without shield: 30 to 10 to 0, the
\* attacker wins after the second hit).
DoubleAttackTwoHits ==
    DuelDoubleAttack =>
        IF DuelFirstHit = 0
        THEN DuelDefenderAfter = 0 /\ probe.after.outcome = DuelAttackerWins
        ELSE /\ DuelDefenderAfter = Max(0, DuelFirstHit - DuelActualPower)
             /\ probe.after.outcome =
                    IF DuelDefenderAfter = 0 THEN DuelAttackerWins ELSE NULL

\* the player's double_attack of power 20 met an enemy of health 30 without
\* shield: the first hit left 10, the second 0 and the player won
DoubleAttackTwoHitsWitness ==
    /\ probe.op = "playCard"
    /\ DuelDoubleAttack
    /\ EffectsOfKind(probe.before.enemyEffects, "shield") = <<>>
    /\ DuelActualPower = 20
    /\ probe.before.enemyHealth = 30
    /\ DuelFirstHit = 10
    /\ probe.after.enemyHealth = 0
    /\ probe.after.outcome = "win"

\* the damage of one hit through the defender's shields
DuelDamage ==
    IF probe.op = "playCard"
    THEN PlayerDamage(DuelActualPower, probe.before.enemyEffects)
    ELSE EnemyDamage(DuelActualPower, probe.before.playerEffects)

\* C14: the second hit of a double_attack goes through the defender's
\* shields like the first: its damage is max(0, effectivePower - sum of the
\* shield powers on the defender's ledger), so a defender whose shields
\* total at least effectivePower loses no health to either hit.
SecondHitThroughShields ==
    (DuelDoubleAttack /\ DuelFirstHit > 0)
        => DuelDefenderAfter = Max(0, DuelFirstHit - DuelDamage)

\* the player's leech card went through playCard's updater and no reflect
\* ended the battle
DuelLeech ==
    /\ probe.op = "playCard"
    /\ Catalog[probe.card].effect = "leech"
    /\ ~DuelReflectLethal

\* the player's health when the leech block is reached: after the reflect
DuelLeechBase ==
    IF Len(DuelReflects) > 0
    THEN probe.before.playerHealth - ReflectAmount(DuelActualPower, DuelReflects[1].power)
    ELSE probe.before.playerHealth

\* C15: when the player plays a leech card, playerHealth increases by
\* min(effectivePower, card.effectPower) and never exceeds playerMaxHealth;
\* the heal is computed from effectivePower (after boost and weaken), not
\* from the damage that got through the shields.
LeechHeal ==
    DuelLeech =>
        /\ probe.after.playerHealth =
              Min(probe.before.playerMaxHealth,
                  DuelLeechBase + Min(DuelActualPower, Catalog[probe.card].effectPower))
        /\ probe.after.playerHealth <= probe.after.playerMaxHealth

\* a leech card of effectPower 6 hit a shielded enemy for less than 6 and
\* the player, below full health, gained the whole 6
LeechHealWitness ==
    /\ DuelLeech
    /\ Len(DuelReflects) = 0
    /\ DuelActualPower >= Catalog[probe.card].effectPower
    /\ DuelDamage < Catalog[probe.card].effectPower
    /\ probe.before.enemyHealth - probe.after.enemyHealth < Catalog[probe.card].effectPower
    /\ probe.before.playerHealth < probe.before.playerMaxHealth
    /\ probe.after.playerHealth = probe.before.playerHealth + Catalog[probe.card].effectPower

\* the first hit of the card took all the health the defender had
DuelFirstHitLethal ==
    /\ probe.op \in {"playCard", "enemyAction"}
    /\ ~DuelReflectLethal
    /\ DuelFirstHit = 0

DuelDefenderLedgerBefore ==
    IF probe.op = "playCard" THEN probe.before.enemyEffects ELSE probe.before.playerEffects

DuelDefenderLedgerAfter ==
    IF probe.op = "playCard" THEN probe.after.enemyEffects ELSE probe.after.playerEffects

\* C16: if the attack damage of a played card reduces the defender's health
\* to 0, the battle ends in the attacker's favour and the remaining steps
\* are skipped: no second hit and no status effect of that card is applied,
\* so the defender's ledger and the skip-next-turn flags are unchanged by
\* that play.
LethalHitSkipsEffect ==
    DuelFirstHitLethal =>
        /\ probe.after.outcome = DuelAttackerWins
        /\ DuelDefenderAfter = 0
        /\ DuelDefenderLedgerAfter = DuelDefenderLedgerBefore
        /\ probe.after.playerSkipNextTurn = probe.before.playerSkipNextTurn
        /\ probe.after.enemySkipNextTurn = probe.before.enemySkipNextTurn

\* C17: a played card's status effect lands on the correct side: heal,
\* shield and boost create an entry on the attacker's own ledger (player's
\* card: playerEffects, enemy's card: enemyEffects) and leave the defender's
\* ledger unchanged; stun, burn and weaken create it on the defender's
\* ledger and leave the attacker's unchanged.
EffectLandsOnCorrectSide ==
    [][ /\ \A cardIndex \in CardIndices :
             ( /\ ~playCardRejected /\ ~playerSkipNextTurn
               /\ cardIndex >= 0 /\ cardIndex < Len(playerCards)
               /\ Catalog[playerCards[cardIndex + 1]].effect # "none"
               /\ playCard(cardIndex, RewardPool) )
             => LET card == playerCards[cardIndex + 1]
                IN IF Catalog[card].effect \in {"heal", "shield", "boost"}
                   THEN /\ playerEffects' = Append(playerEffects, StatusEffect(card))
                        /\ enemyEffects' = enemyEffects
                   ELSE Catalog[card].effect \in {"stun", "burn", "weaken"}
                        => /\ enemyEffects' = Append(enemyEffects, StatusEffect(card))
                           /\ playerEffects' = playerEffects
        /\ \A t \in BagToSet(timers), selectedCardIndex \in 1..BattleHandSize :
             ( /\ selectedCardIndex <= Len(t.hand)
               /\ Catalog[t.hand[selectedCardIndex]].effect # "none"
               /\ enemyAction(t, selectedCardIndex) )
             => LET card == t.hand[selectedCardIndex]
                IN IF Catalog[card].effect \in {"heal", "shield", "boost"}
                   THEN /\ enemyEffects' = Append(enemyEffects, StatusEffect(card))
                        /\ playerEffects' = playerEffects
                   ELSE Catalog[card].effect \in {"stun", "burn", "weaken"}
                        => /\ playerEffects' = Append(playerEffects, StatusEffect(card))
                           /\ enemyEffects' = enemyEffects ]_vars

\* a stun card went through an updater and no reflect ended the battle
DuelStun ==
    /\ probe.op \in {"playCard", "enemyAction"}
    /\ Catalog[probe.card].effect = "stun"
    /\ ~DuelReflectLethal

\* C18: playing a stun card sets the opposing side's skip-next-turn flag, in
\* both directions: the player's stun card sets enemySkipNextTurn, the
\* enemy's stun card sets playerSkipNextTurn.
StunSetsOpposingFlag ==
    DuelStun =>
        IF probe.op = "playCard"
        THEN probe.after.enemySkipNextTurn
        ELSE probe.after.playerSkipNextTurn

\* the half that holds: the player's stun card sets enemySkipNextTurn
PlayerStunSetsEnemyFlag ==
    (DuelStun /\ probe.op = "playCard") => probe.after.enemySkipNextTurn

\* C19: stun consumption: when a side's skip-next-turn flag is set, that
\* side's next playCard call (player) or next enemy-action step (enemy)
\* applies no card and no damage, clears the flag and advances the turn.
StunConsumption ==
    [][ /\ \A cardIndex \in CardIndices :
             ( /\ playerSkipNextTurn /\ ~playCardRejected
               /\ playCard(cardIndex, RewardPool) )
             => /\ activeCard' = NoCard
                /\ enemyHealth' = BurnTicks(enemyHealth, <<>>)
                /\ ~playerSkipNextTurn'
                /\ currentTurn' = "enemy"
        /\ \A t \in BagToSet(timers), selectedCardIndex \in 1..BattleHandSize :
             ( /\ enemySkipNextTurn /\ ~t.stale /\ Len(t.hand) > 0
               /\ enemyAction(t, selectedCardIndex) )
             => /\ enemyActiveCard' = enemyActiveCard
                /\ playerHealth' = playerHealth
                /\ playerEffects' = playerEffects
                /\ ~enemySkipNextTurn' ]_vars

\* nothing ever sets playerSkipNextTurn
PlayerNeverStunned == ~playerSkipNextTurn

\* C20: when endTurn is called on the player's turn with enemySkipNextTurn
\* set, the flag is consumed and no enemy card is selected or resolved: the
\* call schedules the return to the player after the skip delay and no
\* enemy action, it changes no health and no ledger beyond the end-of-turn
\* burn ticks and decay; when that timer fires, currentTurn is 'player'
\* again and health and ledgers are as they were.
EnemySkipConsumed ==
    [][ /\ ( /\ outcome = NULL /\ currentTurn = "player" /\ enemySkipNextTurn
             /\ EndTurn )
           => /\ ~enemySkipNextTurn'
              /\ currentTurn' = "enemy"
              /\ timers' = Schedule(timers, Timer("skip", SkipDelay, <<>>, FALSE))
              /\ enemyActiveCard' = enemyActiveCard
              /\ enemyHealth' = enemyHealth
              /\ playerEffects' = playerEffects
              /\ playerHealth' = BurnTicks(playerHealth, playerEffects)
        /\ \A t \in BagToSet(timers) :
             (t.kind = "skip" /\ returnToPlayer(t))
             => /\ currentTurn' = "player"
                /\ enemyActiveCard' = NoCard
                /\ UNCHANGED <<playerHealth, enemyHealth, playerEffects, enemyEffects,
                               outcome, enemySkipNextTurn>> ]_vars

\* the stunned enemy's turn has been skipped: the player's stun card hit,
\* the turn was ended and has come back to the player by the skip timer
\* with the player unhurt and no enemy card shown
EnemySkipConsumedWitness ==
    /\ active
    /\ currentTurn = "player"
    /\ outcome = NULL
    /\ activeCard = NoCard
    /\ enemyActiveCard = NoCard
    /\ enemyHealth = enemyMaxHealth - 12
    /\ playerHealth = playerMaxHealth
    /\ playerEffects = <<>>
    /\ ~enemySkipNextTurn
    /\ timers = EmptyBag

\* a burn card went through an updater and no reflect ended the battle
DuelBurn ==
    /\ probe.op \in {"playCard", "enemyAction"}
    /\ Catalog[probe.card].effect = "burn"
    /\ ~DuelReflectLethal

\* C21: playing a burn card with effectPower e deals e immediate damage at
\* application time in addition to the attack damage: the defender's health
\* after the play is max(0, health - attack damage - e).
BurnImmediateDamage ==
    DuelBurn =>
        DuelDefenderAfter =
            Max(0, DuelDefenderBefore - DuelDamage - Catalog[probe.card].effectPower)

\* what the updaters leave instead: the attack damage alone
BurnImmediateDamageLost ==
    DuelBurn => DuelDefenderAfter = Max(0, DuelDefenderBefore - DuelDamage)

\* C22: every burn entry ticks (deals its power to its owner, floored at 0)
\* exactly once at each turn boundary of its owner and never at a boundary
\* that is not its owner's: when the player's turn ends the burns of
\* playerEffects tick and the enemy's health is untouched, when the enemy's
\* turn ends the burns of enemyEffects tick and the player's health is
\* untouched.
BurnTicksAtOwnerBoundary ==
    [][ outcome = NULL =>
          /\ (currentTurn = "player" /\ currentTurn' = "enemy")
                => /\ playerHealth' = BurnTicks(playerHealth, playerEffects)
                   /\ enemyHealth' = enemyHealth
          /\ (currentTurn = "enemy" /\ currentTurn' = "player")
                => /\ enemyHealth' = BurnTicks(enemyHealth, enemyEffects)
                   /\ playerHealth' = playerHealth ]_vars

\* the half that holds: the end of the player's turn
BurnTicksAtPlayerBoundary ==
    [][ (outcome = NULL /\ currentTurn = "player" /\ currentTurn' = "enemy")
            => /\ playerHealth' = BurnTicks(playerHealth, playerEffects)
               /\ enemyHealth' = enemyHealth ]_vars

\* C23: ledger decay runs exactly once at every turn end, never twice and
\* never skipped: the end of the player's turn decays enemyEffects, the end
\* of the enemy's turn decays playerEffects, also when the enemy's turn
\* ends through the return-to-player timer or was skipped by a stun, and
\* when a burn tick of that turn end is lethal.
DecayAtEveryTurnEnd ==
    [][ outcome = NULL =>
          /\ (currentTurn = "player" /\ currentTurn' = "enemy")
                => enemyEffects' = Decay(enemyEffects)
          /\ (currentTurn = "enemy" /\ currentTurn' = "player")
                => playerEffects' = Decay(playerEffects) ]_vars

\* what holds: an endTurn call whose burn ticks are not lethal decays the
\* ledger of the side that is not ending its turn, once
DecayAtEndTurn ==
    [][ (outcome = NULL /\ EndTurn /\ outcome' = NULL)
            => IF currentTurn = "player"
               THEN enemyEffects' = Decay(enemyEffects) /\ playerEffects' = playerEffects
               ELSE playerEffects' = Decay(playerEffects) /\ enemyEffects' = enemyEffects
      ]_vars

\* C24: enemy AI, low band: whenever the enemy selects a card while
\* playerHealth is strictly below 30% of playerMaxHealth, the health being
\* the one at the time the enemy acts, the selected card has the maximum
\* power of the enemy hand, and among cards of equal maximum power the one
\* with the lowest index is selected.
LowBandMostDamaging ==
    [][ \A t \in BagToSet(timers), selectedCardIndex \in 1..BattleHandSize :
          ( /\ Len(t.hand) > 0
            /\ 10 * playerHealth < 3 * playerMaxHealth
            /\ enemyAction(t, selectedCardIndex) )
          => /\ selectedCardIndex <= Len(t.hand)
             /\ enemyActiveCard' = t.hand[selectedCardIndex]
             /\ \A j \in 1..Len(t.hand) :
                   /\ Catalog[t.hand[j]].power <= Catalog[t.hand[selectedCardIndex]].power
                   /\ j < selectedCardIndex
                        => Catalog[t.hand[j]].power < Catalog[t.hand[selectedCardIndex]].power
      ]_vars

\* the enemy, holding a power-12 and a power-20 card, has hit a player of
\* less than 30 health with the power-20 card, its second
LowBandMostDamagingWitness ==
    /\ active
    /\ enemyCards = <<2, 4>>
    /\ enemyActiveCard = 4
    /\ playerEffects = <<>>
    /\ playerHealth > 0
    /\ playerHealth < 10
    /\ outcome = NULL
    /\ \E t \in BagToSet(timers) : t.kind = "return" /\ ~t.stale

\* C25: enemy AI, high band: whenever the enemy selects a card while
\* playerHealth is strictly above 70% of playerMaxHealth, it selects the
\* lowest-index card whose effect is not none or, if the hand has no such
\* card, the maximum-power card (lowest index on ties); in every band the
\* selected index is within the hand.
HighBandEffectFirst ==
    [][ \A t \in BagToSet(timers), selectedCardIndex \in 1..BattleHandSize :
          ( /\ Len(t.hand) > 0
            /\ enemyAction(t, selectedCardIndex) )
          => /\ selectedCardIndex <= Len(t.hand)
             /\ enemyActiveCard' = t.hand[selectedCardIndex]
             /\ 10 * playerHealth > 7 * playerMaxHealth
                  => IF \E j \in 1..Len(t.hand) : Catalog[t.hand[j]].effect # "none"
                     THEN /\ Catalog[t.hand[selectedCardIndex]].effect # "none"
                          /\ \A j \in 1..(selectedCardIndex - 1) :
                                Catalog[t.hand[j]].effect = "none"
                     ELSE \A j \in 1..Len(t.hand) :
                            /\ Catalog[t.hand[j]].power
                                  <= Catalog[t.hand[selectedCardIndex]].power
                            /\ j < selectedCardIndex
                                 => Catalog[t.hand[j]].power
                                       < Catalog[t.hand[selectedCardIndex]].power
      ]_vars

\* the enemy, holding a card without effect and then a stun card, has hit
\* a player at full health with the stun card, its second
HighBandEffectFirstWitness ==
    /\ active
    /\ enemyCards = <<2, 6>>
    /\ enemyActiveCard = 6
    /\ playerHealth = playerMaxHealth - 12
    /\ Len(playerEffects) = 1
    /\ outcome = NULL
    /\ \E t \in BagToSet(timers) : t.kind = "return" /\ ~t.stale

\* C26: after startBattle(level), from any prior state: active is true,
\* currentTurn is 'player', outcome is null, both ledgers are empty, both
\* skip flags are false, activeCard and enemyActiveCard are null, the enemy
\* hand has min(3, level + 1) cards, enemyHealth = enemyMaxHealth =
\* 30 + 20 * level, the player hand has at most 3 cards, playerHealth and
\* playerMaxHealth are the character's health and maxHealth, and the view
\* is 'battle'.
StartBattleResets ==
    [][ \A lvl \in StartLevels, generated \in StartEnemyHands :
          startBattle(lvl, generated)
          => /\ active'
             /\ level' = lvl
             /\ currentTurn' = "player"
             /\ outcome' = NULL
             /\ playerEffects' = <<>> /\ enemyEffects' = <<>>
             /\ ~playerSkipNextTurn' /\ ~enemySkipNextTurn'
             /\ activeCard' = NoCard /\ enemyActiveCard' = NoCard
             /\ Len(enemyCards') = Min(3, lvl + 1)
             /\ enemyHealth' = 30 + (20 * lvl)
             /\ enemyMaxHealth' = 30 + (20 * lvl)
             /\ Len(playerCards') <= 3
             /\ playerHealth' = health
             /\ playerMaxHealth' = maxHealth
             /\ view' = "battle" ]_vars

\* a battle of level 3 has been started over a lost one: the hand holds 3
\* of the 4 cards of the collection, the enemy 3 cards and 90 health, and
\* the timer of the old battle's enemy action is still pending
StartBattleResetsWitness ==
    /\ active
    /\ level = 3
    /\ Len(playerCards) = 3
    /\ Len(enemyCards) = 3
    /\ enemyHealth = 90
    /\ playerHealth = health
    /\ outcome = NULL
    /\ playerEffects = <<>>
    /\ \E t \in BagToSet(timers) : t.stale /\ t.kind = "return"

\* C27: every battle that reaches outcome 'win' awards experience
\* 50 + level * 25 to the character exactly once, whichever step produced
\* the win (first hit, second hit of a double attack, immediate burn
\* damage, burn tick at a turn end, reflect during the enemy's attack, the
\* enemy having no cards): the step that sets outcome to 'win' leaves the
\* character as gainExperience(50 + level * 25) leaves it, or with the 10
\* more of addCard when a reward card was drawn, in a battle that
\* startBattle has started and that no timer of an earlier battle reaches
\* into, and no step changes the character while outcome stays 'win'.
WinAwardsExperience ==
    [][ /\ ( /\ active
             /\ \A t \in BagToSet(timers) : ~t.stale
             /\ outcome # "win"
             /\ outcome' = "win" )
           => LET won == gainExperience(Character, ExpGain(level))
              IN Character' \in { won, gainExperience(won, 10) }
        /\ (outcome = "win" /\ outcome' = "win") => Character' = Character ]_vars

\* C28: a battle in which the enemy has no cards is an automatic win of the
\* player: the enemy action that finds the hand empty sets outcome to 'win'
\* and changes nothing else, and the battle is never left waiting in the
\* enemy's turn: while it is the enemy's turn without an outcome, the enemy
\* action that will end the battle is pending.
EmptyHandWins ==
    [][ /\ \A t \in BagToSet(timers) :
             (Len(t.hand) = 0 /\ enemyAction(t, 1))
             => /\ outcome' = "win"
                /\ UNCHANGED <<active, playerHealth, enemyHealth, playerEffects,
                               enemyEffects, currentTurn, activeCard, enemyActiveCard,
                               playerCards, enemyCards>>
        /\ (active' /\ enemyCards' = <<>> /\ currentTurn' = "enemy" /\ outcome' = NULL)
           => \E t \in BagToSet(timers') :
                 t.kind = "enemy" /\ ~t.stale /\ t.hand = <<>> ]_vars

\* the battle against an enemy without cards is won: the player has ended
\* the turn, the enemy action has fired and no timer is left
EmptyHandWinsWitness ==
    /\ active
    /\ level = -1
    /\ enemyCards = <<>>
    /\ outcome = "win"
    /\ currentTurn = "enemy"
    /\ enemyHealth = enemyMaxHealth
    /\ timers = EmptyBag


\* C29: startNewBattle sets active to false, activeCard and enemyActiveCard
\* to null, currentTurn to 'player' and outcome to null, and leaves both
\* health values, both max-health values, both hands, both ledgers, level
\* and the skip flags unchanged.
StartNewBattleFrame ==
    [][ startNewBattle
        => /\ ~active'
           /\ activeCard' = NoCard
           /\ enemyActiveCard' = NoCard
           /\ currentTurn' = "player"
           /\ outcome' = NULL
           /\ UNCHANGED <<playerHealth, playerMaxHealth, enemyHealth, enemyMaxHealth,
                          playerCards, enemyCards, playerEffects, enemyEffects,
                          level, playerSkipNextTurn, enemySkipNextTurn>> ]_vars

\* startNewBattle has been called after a battle that brought the enemy to
\* 0: the battle is inactive and without outcome, it is the player's turn,
\* and the damage, the ledger entry and the pending timer are still there
StartNewBattleFrameWitness ==
    /\ ~active
    /\ outcome = NULL
    /\ currentTurn = "player"
    /\ activeCard = NoCard
    /\ enemyActiveCard = NoCard
    /\ enemyHealth = 0
    /\ playerHealth < playerMaxHealth
    /\ Len(playerEffects) > 0
    /\ \E t \in BagToSet(timers) : t.stale

\* C30: each card resolution is committed atomically: no store state that a
\* subscriber sees during playCard's or the enemy action's resolution
\* combines part of the post-state with part of the pre-state (outcome
\* already set, or the card's status effect already in the ledger, while
\* the health change of the same resolution is not yet applied): every
\* state published on the way is the state before or the state after.
ResolutionAtomic ==
    probe.op \in {"playCard", "enemyAction"}
    => \A i \in 1..Len(probe.published) :
          probe.published[i] \in {probe.before, probe.after}

\* holds: a card without effect that ends no battle publishes nothing before
\* the result of its updater
PlainHitAtomic ==
    ( /\ probe.op \in {"playCard", "enemyAction"}
      /\ Catalog[probe.card].effect = "none"
      /\ probe.after.outcome = NULL )
    => probe.published = <<>>

\* C31: every card generated with source 'starter' has rarity common and
\* effect none, for every outcome of the random choices in the generator.
StarterCommonNoEffect ==
    (probe.op = "generateCard" /\ probe.source = "starter")
    => (probe.card.rarity = "common" /\ probe.card.effect = "none")

\* holds: every starter card has rarity common
StarterCommon ==
    (probe.op = "generateCard" /\ probe.source = "starter")
    => probe.card.rarity = "common"

\* C32: at each endTurn every entry of the enemy ledger has its duration
\* reduced by exactly 1 when the ending turn is the player's and is
\* unchanged when it is the enemy's, every entry of the player ledger is
\* reduced by exactly 1 when the ending turn is the enemy's and unchanged
\* when it is the player's, an entry is removed exactly when its duration
\* reaches 0, and no other operation changes a duration (a step that is not
\* an endTurn leaves each ledger as it is, appends to it or, in startBattle,
\* empties it).
DurationsStepAtEndTurn ==
    [][ LET Kept(new, old) ==
                \/ new = <<>>
                \/ Len(new) >= Len(old) /\ SubSeq(new, 1, Len(old)) = old
        IN /\ (outcome = NULL /\ EndTurn)
                => IF currentTurn = "player"
                   THEN /\ enemyEffects' = Decay(enemyEffects)
                        /\ playerEffects' = playerEffects
                   ELSE /\ playerEffects' = Decay(playerEffects)
                        /\ enemyEffects' = enemyEffects
           /\ ~EndTurn => /\ Kept(playerEffects', playerEffects)
                          /\ Kept(enemyEffects', enemyEffects) ]_vars

\* what holds: the same with the endTurn calls left out whose burn tick
\* ends the battle; those leave both ledgers as they are
DurationsStepAtLiveEndTurn ==
    [][ LET Kept(new, old) ==
                \/ new = <<>>
                \/ Len(new) >= Len(old) /\ SubSeq(new, 1, Len(old)) = old
        IN /\ (outcome = NULL /\ EndTurn)
                => IF outcome' # NULL
                   THEN UNCHANGED <<playerEffects, enemyEffects>>
                   ELSE IF currentTurn = "player"
                   THEN /\ enemyEffects' = Decay(enemyEffects)
                        /\ playerEffects' = playerEffects
                   ELSE /\ playerEffects' = Decay(playerEffects)
                        /\ enemyEffects' = enemyEffects
           /\ ~EndTurn => /\ Kept(playerEffects', playerEffects)
                          /\ Kept(enemyEffects', enemyEffects) ]_vars

\* C33: a status effect applied with duration d persists through the turn
\* in which it was cast and expires only after d more full cycles: the
\* entry that the player's card has placed on the enemy ledger in this turn
\* is still in that ledger after the endTurn that ends the turn, so that
\* the enemy's next action is resolved with it.
EffectOutlivesCastingTurn ==
    [][ ( /\ outcome = NULL /\ outcome' = NULL
          /\ EndTurn
          /\ currentTurn = "player"
          /\ activeCard # NoCard
          /\ \E i \in DOMAIN enemyEffects : enemyEffects[i].sourceCard = activeCard )
        => \E i \in DOMAIN enemyEffects' : enemyEffects'[i].sourceCard = activeCard
      ]_vars

\* what holds: an entry of duration 2 or more outlives the casting turn
LongEffectOutlivesCastingTurn ==
    [][ ( /\ outcome = NULL /\ outcome' = NULL
          /\ EndTurn
          /\ currentTurn = "player"
          /\ activeCard # NoCard
          /\ \E i \in DOMAIN enemyEffects :
                enemyEffects[i].sourceCard = activeCard /\ enemyEffects[i].duration >= 2 )
        => \E i \in DOMAIN enemyEffects' : enemyEffects'[i].sourceCard = activeCard
      ]_vars

\* C34: only stun, heal, shield, boost, burn and weaken cards create a
\* StatusEffect entry when played: a card whose effect is leech,
\* double_attack or none adds no entry to either ledger, whoever plays it.
NoEntryForLeechDoubleAttackNone ==
    ( /\ probe.op \in {"playCard", "enemyAction"}
      /\ Catalog[probe.card].effect \in {"leech", "double_attack", "none"} )
    => /\ probe.after.playerEffects = probe.before.playerEffects
       /\ probe.after.enemyEffects = probe.before.enemyEffects

\* what holds: a card without effect adds no entry
NoEntryForNone ==
    ( /\ probe.op \in {"playCard", "enemyAction"}
      /\ Catalog[probe.card].effect = "none" )
    => /\ probe.after.playerEffects = probe.before.playerEffects
       /\ probe.after.enemyEffects = probe.before.enemyEffects

EnemyActsInOwnTurn ==
    [][ /\ \A t \in BagToSet(timers), selectedCardIndex \in 1..BattleHandSize :
             ( /\ active /\ outcome = NULL
               /\ ~t.stale /\ Len(t.hand) > 0
               /\ enemyAction(t, selectedCardIndex) )
             => /\ currentTurn = "enemy"
                /\ enemyActiveCard = NoCard
        /\ \A t \in BagToSet(timers) :
             (active /\ outcome = NULL /\ ~t.stale /\ returnToPlayer(t))
             => ~\E u \in BagToSet(timers') : u.kind = "enemy" /\ ~u.stale
      ]_vars

\* C37: outcome is consistent with health in every state that a command
\* or timer step leaves: in the store that the resolution of a card leaves,
\* outcome 'lose' implies playerHealth = 0, outcome 'win' implies
\* enemyHealth = 0 (the enemy has a hand: it is the player's card or the
\* enemy's that is resolved), and with outcome null both healths are
\* above 0.
OutcomeMatchesHealth ==
    probe.op \in {"playCard", "enemyAction"}
    => /\ probe.after.outcome = "lose" => probe.after.playerHealth = 0
       /\ probe.after.outcome = "win" => probe.after.enemyHealth = 0
       /\ probe.after.outcome = NULL
            => (probe.after.playerHealth > 0 /\ probe.after.enemyHealth > 0)

\* what holds: a lost battle has playerHealth 0, and without outcome both
\* healths are above 0
LoseMatchesHealth ==
    probe.op \in {"playCard", "enemyAction"}
    => /\ probe.after.outcome = "lose" => probe.after.playerHealth = 0
       /\ probe.after.outcome = NULL
            => (probe.after.playerHealth > 0 /\ probe.after.enemyHealth > 0)

\* C38: while no battle is active (active is false: before the first
\* startBattle, or after startNewBattle and before the next startBattle),
\* playCard and endTurn change no health, ledger, turn or outcome field and
\* schedule no enemy action.
InactiveBattleInert ==
    [][ (~active /\ (PlayCard \/ EndTurn))
        => UNCHANGED <<playerHealth, enemyHealth, playerEffects, enemyEffects,
                       currentTurn, outcome, timers>> ]_vars

\* what holds: before the first startBattle the hand is empty and playCard
\* changes nothing
PlayCardInertBeforeFirstBattle ==
    [][ (~active /\ playerCards = <<>> /\ PlayCard) => UNCHANGED vars ]_vars

\* C39: the enemy's attack resolution is the mirror image of the player's:
\* for any battle state and card, resolving the card with the enemy as
\* attacker gives the role-swapped result (health of both sides, both
\* ledgers, skip flags, outcome) of resolving the same card with the player
\* as attacker in the role-swapped state.
EnemyMirrorsPlayer ==
    LET Swap(s) ==
            [ playerHealth       |-> s.enemyHealth,
              playerMaxHealth    |-> s.playerMaxHealth,
              enemyHealth        |-> s.playerHealth,
              playerEffects      |-> s.enemyEffects,
              enemyEffects       |-> s.playerEffects,
              outcome            |-> IF s.outcome = "win" THEN "lose"
                                     ELSE IF s.outcome = "lose" THEN "win"
                                     ELSE s.outcome,
              playerSkipNextTurn |-> s.enemySkipNextTurn,
              enemySkipNextTurn  |-> s.playerSkipNextTurn ]
    IN probe.op = "enemyAction"
       => probe.after
            = Swap(ResolvePlayerCard(Swap(probe.before), probe.card, DefaultLevel).store)

\* what holds: the mirror image for cards without effect and for
\* double_attack cards, when the attack ends the battle for neither side
EnemyMirrorsPlayerPlainCards ==
    LET Swap(s) ==
            [ playerHealth       |-> s.enemyHealth,
              playerMaxHealth    |-> s.playerMaxHealth,
              enemyHealth        |-> s.playerHealth,
              playerEffects      |-> s.enemyEffects,
              enemyEffects       |-> s.playerEffects,
              outcome            |-> IF s.outcome = "win" THEN "lose"
                                     ELSE IF s.outcome = "lose" THEN "win"
                                     ELSE s.outcome,
              playerSkipNextTurn |-> s.enemySkipNextTurn,
              enemySkipNextTurn  |-> s.playerSkipNextTurn ]
    IN (probe.op = "enemyAction"
        /\ Catalog[probe.card].effect \in {"none", "double_attack"}
        /\ probe.after.outcome = NULL)
       => probe.after
            = Swap(ResolvePlayerCard(Swap(probe.before), probe.card, DefaultLevel).store)

==========================================================================
